---- MODULE Spec2Model ----
(***************************************************************************)
(* Pattern mining over a listening-event table (beyond-shuffle):           *)
(*   - period detection        src/pf_periods.py                           *)
(*   - period / habit emission src/pattern_finder.py                       *)
(*   - habit slot selection    src/pf_habits.py                            *)
(*   - popularity ranking      src/pattern_processing.py                   *)
(* Timestamps are whole days (integers); shares, z-scores and scores are   *)
(* exact rationals, compared by cross-multiplication.                      *)
(***************************************************************************)
EXTENDS Integers, Sequences, FiniteSets, TLC

VARIABLES
    pc,                 \* position in the pipeline under analysis
    df,                 \* period detection: the event table, sorted by time
    baseline_country,   \* period detection: the baseline country handed in
    detected_windows,   \* result of detect_categorical_anomalies
    current_period,     \* merge loop: index in detected_windows of the dict
                        \* current_period refers to (0: none)
    merge_i,            \* merge loop: index of next_window
    merged_periods,     \* result of merge_consecutive_windows
    periods,            \* Period objects built by create_period_from_data
    full_period_tracks, \* find_periods: the events of one merged period
    period_anomalies,   \* find_periods: its anomalies dict, as a set of items
    patterns,           \* find_periods: the Period objects emitted
    stats,              \* select_habit_slots: the slot statistics, one row a slot
    selected,           \* select_habit_slots: the slot keys returned
    slot_groups,        \* find_habits: the groups of df.groupby, one a slot
    habit_baseline,     \* find_habits: feature -> mean and std, in tenths
    kmeans_labels,      \* the label K-means gives each kind of usable row
    habits,             \* find_habits: the Habit objects returned
    pattern_tracks,     \* _calculate_popularity: the events of one pattern
    tracks_with_popularity, \* _calculate_popularity: the events with scores
    detected_patterns,  \* process_patterns: the patterns to rank
    num_songs,          \* process_patterns, generate_playlists: the length of a playlist
    top_tracks_map,     \* process_patterns: pattern name -> ranked tracks
    slot_events,        \* compute_slot_feature_stats: the events, each with its slot
    slot_stats,         \* compute_slot_feature_stats: slot -> mean, z, count, weeks
    audio_columns,      \* cluster_audio_profiles: the audio feature columns of the table
    labels,             \* cluster_audio_profiles: the Series returned, one label an event
    label_runs,         \* the label Series of the calls so far
    fp_df,              \* find_patterns: what calculate_baseline reads of the table
    fp_baseline,        \* find_patterns: the baseline computed
    baseline_calls,     \* find_patterns: the calls of calculate_baseline of this run
    handed,             \* find_patterns: the detectors called, each with the baseline handed
    all_patterns,       \* find_patterns: the list being built
    returned,           \* the lists returned by the runs so far
    schema_table,       \* the habit schemas: the event table, its columns and rows
    schema_i,           \* the habit schemas: the schemas done so far
    slotted,            \* the habit schemas: what each slot-key builder returned
    schema_stats,       \* the habit schemas: the statistics of each schema
    flagged_windows,    \* merge_consecutive_windows: the list as it was handed in
    rg_elapsed,         \* robust_get: time.monotonic() - start at the last reading, in ticks
    rg_event,           \* robust_get: what the last requests.get did
    rg_wait,            \* robust_get: the sleep chosen after the last failure, in ticks
    rg_outcome,         \* robust_get: how the call ended
    rg_status,          \* robust_get: the status code of the response returned
    total_batches,      \* phase 1: len(id_batches)
    batch_idx,          \* phase 1: the batch to fetch next
    recco_track_infos,  \* phase 1: the batches whose content was collected
    last_checkpoint_at_batch, \* phase 1: batch_idx at the last checkpoint
    p1_outcome,         \* phase 1: what the last request of the loop ended with
    p1_waits,           \* phase 1: rate-limit waits so far
    exit_status,        \* the status the script exited with, 0 while running
    error_csv,          \* the records written to the error CSV
    total,              \* phase 2: len(tracks_for_features)
    track_idx,          \* phase 2: the first track of the batch to fetch next
    features,           \* phase 2: the tracks whose audio features were appended, in order
    last_checkpoint_at_features, \* phase 2: len(features) at the last checkpoint
    batch_results,      \* phase 2: the results of the futures of the last batch
    p2_waits,           \* phase 2: rate-limit waits so far
    p2_error_csv,       \* phase 2: the records written to the error CSV
    sorted_tracks,      \* generate_playlists: the (track, artist) pairs of the filtered table by descending score
    max_per_artist,     \* generate_playlists: the limit handed in, <<>> for None
    unique_tracks,      \* generate_playlists: the pairs without repetitions
    diverse_tracks,     \* generate_playlists: the pairs kept by enforce_artist_diversity
    generated_playlists \* generate_playlists: the tracks selected for the playlist

periodVars == <<df, baseline_country, detected_windows, current_period, merge_i,
                merged_periods, periods>>
findPeriodsVars == <<full_period_tracks, period_anomalies, patterns>>

selectVars == <<stats, selected>>
findHabitsVars == <<slot_groups, habit_baseline, kmeans_labels, habits>>

processingVars == <<pattern_tracks, tracks_with_popularity, detected_patterns,
                    num_songs, top_tracks_map>>

slotStatsVars == <<slot_events, slot_stats>>

clusterVars == <<audio_columns, labels, label_runs>>

findPatternsVars == <<fp_df, fp_baseline, baseline_calls, handed, all_patterns, returned>>

schemasVars == <<schema_table, schema_i, slotted, schema_stats>>

mergeInputVars == <<flagged_windows>>

robustGetVars == <<rg_elapsed, rg_event, rg_wait, rg_outcome, rg_status>>

phase1Vars == <<total_batches, batch_idx, recco_track_infos, last_checkpoint_at_batch, p1_outcome, p1_waits, exit_status, error_csv>>

phase2Vars == <<total, track_idx, features, last_checkpoint_at_features, batch_results, p2_waits, p2_error_csv>>

playlistsVars == <<sorted_tracks, max_per_artist, unique_tracks, diverse_tracks, generated_playlists>>

vars == <<pc, periodVars, findPeriodsVars, selectVars, findHabitsVars,
          processingVars,
          slotStatsVars,
          clusterVars,
          findPatternsVars,
          schemasVars,
          mergeInputVars,
          robustGetVars,
          phase1Vars,
          phase2Vars,
          playlistsVars>>

\* What the actions of one component leave alone
nonPeriodVars == <<findPeriodsVars, selectVars, findHabitsVars, processingVars,
      slotStatsVars,
      clusterVars,
      findPatternsVars,
      schemasVars,
      mergeInputVars,
      robustGetVars,
      phase1Vars,
      phase2Vars,
      playlistsVars>>
nonFindPeriodsVars == <<periodVars, selectVars, findHabitsVars, processingVars,
      slotStatsVars,
      clusterVars,
      findPatternsVars,
      schemasVars,
      mergeInputVars,
      robustGetVars,
      phase1Vars,
      phase2Vars,
      playlistsVars>>
nonSelectVars == <<periodVars, findPeriodsVars, findHabitsVars, processingVars,
      slotStatsVars,
      clusterVars,
      findPatternsVars,
      schemasVars,
      mergeInputVars,
      robustGetVars,
      phase1Vars,
      phase2Vars,
      playlistsVars>>
nonFindHabitsVars == <<periodVars, findPeriodsVars, selectVars, processingVars,
      slotStatsVars,
      clusterVars,
      findPatternsVars,
      schemasVars,
      mergeInputVars,
      robustGetVars,
      phase1Vars,
      phase2Vars,
      playlistsVars>>
nonProcessingVars == <<periodVars, findPeriodsVars, selectVars, findHabitsVars,
      slotStatsVars,
      clusterVars,
      findPatternsVars,
      schemasVars,
      mergeInputVars,
      robustGetVars,
      phase1Vars,
      phase2Vars,
      playlistsVars>>
nonSlotStatsVars == <<periodVars, findPeriodsVars, selectVars, findHabitsVars, processingVars,
      clusterVars,
      findPatternsVars,
      schemasVars,
      mergeInputVars,
      robustGetVars,
      phase1Vars,
      phase2Vars,
      playlistsVars>>
nonClusterVars == <<periodVars, findPeriodsVars, selectVars, findHabitsVars, processingVars, slotStatsVars,
      findPatternsVars,
      schemasVars,
      mergeInputVars,
      robustGetVars,
      phase1Vars,
      phase2Vars,
      playlistsVars>>
nonFindPatternsVars == <<periodVars, findPeriodsVars, selectVars, findHabitsVars, processingVars, slotStatsVars, clusterVars,
      schemasVars,
      mergeInputVars,
      robustGetVars,
      phase1Vars,
      phase2Vars,
      playlistsVars>>
nonSchemasVars == <<periodVars, findPeriodsVars, selectVars, findHabitsVars, processingVars, slotStatsVars, clusterVars, findPatternsVars,
      mergeInputVars,
      robustGetVars,
      phase1Vars,
      phase2Vars,
      playlistsVars>>
nonMergeInputVars == <<periodVars, findPeriodsVars, selectVars, findHabitsVars, processingVars, slotStatsVars, clusterVars, findPatternsVars, schemasVars,
      robustGetVars,
      phase1Vars,
      phase2Vars,
      playlistsVars>>
nonRobustGetVars == <<periodVars, findPeriodsVars, selectVars, findHabitsVars, processingVars, slotStatsVars, clusterVars, findPatternsVars, schemasVars, mergeInputVars,
      phase1Vars,
      phase2Vars,
      playlistsVars>>
nonPhase1Vars == <<periodVars, findPeriodsVars, selectVars, findHabitsVars, processingVars, slotStatsVars, clusterVars, findPatternsVars, schemasVars, mergeInputVars, robustGetVars,
      phase2Vars,
      playlistsVars>>
nonPhase2Vars == <<periodVars, findPeriodsVars, selectVars, findHabitsVars, processingVars, slotStatsVars, clusterVars, findPatternsVars, schemasVars, mergeInputVars, robustGetVars, phase1Vars,
      playlistsVars>>
nonPlaylistsVars == <<periodVars, findPeriodsVars, selectVars, findHabitsVars, processingVars, slotStatsVars, clusterVars, findPatternsVars, schemasVars, mergeInputVars, robustGetVars, phase1Vars, phase2Vars>>

-----------------------------------------------------------------------------
(* Program constants, src/constants.py *)

WINDOW_SIZE_DAYS == 4
STEP_SIZE_DAYS == 1
\* PERIOD_FEATURE_ZSCORE_THRESHOLD = 0.6, kept as the fraction 6/10
PERIOD_FEATURE_ZSCORE_THRESHOLD_NUM == 6
PERIOD_FEATURE_ZSCORE_THRESHOLD_DEN == 10

-----------------------------------------------------------------------------
(* Bounds of the period-detection inputs *)

\* SpecPeriods: days 0..MaxDay, at most one event per day
MaxDay == 8
\* SpecDetect: up to MaxWindowEvents events on the days of two scan windows
MaxWindowEvents == 5

\* Country values of the two input families ("ZZ" is the unknown sentinel)
PeriodCountries == {"US", "FR", "DE"}
DetectCountries == {"US", "FR", "ZZ"}
None == "none"

Max(a, b) == IF a >= b THEN a ELSE b

-----------------------------------------------------------------------------
(* The event table *)

Event(t, c) == [t |-> t, country |-> c]

\* The table with the event f[d] on every day d whose cell is not None,
\* in time order (df.sort_index()).
RECURSIVE TableOf(_, _)
TableOf(f, d) ==
    IF d < 0 THEN <<>>
    ELSE IF f[d] = None THEN TableOf(f, d - 1)
    ELSE Append(TableOf(f, d - 1), Event(d, f[d]))

\* Event kinds of the short tables, in a fixed order (day-major); a short
\* table is a nondecreasing sequence of kinds, i.e. a multiset of events on
\* the days of two overlapping scan windows.
KindCountry(k) == CASE k % 3 = 0 -> "US" [] k % 3 = 1 -> "FR" [] OTHER -> "ZZ"
KindDay(k) == k \div 3
NumKinds == 3 * (WINDOW_SIZE_DAYS + STEP_SIZE_DAYS)

RECURSIVE NonDecreasing(_, _)
NonDecreasing(n, lo) ==
    IF n = 0 THEN {<<>>}
    ELSE UNION {{<<k>> \o s : s \in NonDecreasing(n - 1, k)} :
                    k \in lo..(NumKinds - 1)}

ShortTables ==
    {[i \in 1..Len(s) |-> Event(KindDay(s[i]), KindCountry(s[i]))] :
        s \in {x \in UNION {NonDecreasing(n, 0) : n \in 0..MaxWindowEvents} :
                   x # <<>> => KindDay(x[1]) = 0}}

-----------------------------------------------------------------------------
(* detect_categorical_anomalies, src/pf_periods.py *)

\* df_sorted.loc[lo:hi], both ends included
Slice(table, lo, hi) == SelectSeq(table, LAMBDA e : e.t >= lo /\ e.t <= hi)

CountOf(window, c) == Len(SelectSeq(window, LAMBDA e : e.country = c))

ValuesOf(window) == {window[i].country : i \in 1..Len(window)}

\* Mutant: the share has to exceed the threshold
ShareAboveThreshold(window, c) ==
    CountOf(window, c) * PERIOD_FEATURE_ZSCORE_THRESHOLD_DEN
        > PERIOD_FEATURE_ZSCORE_THRESHOLD_NUM * Len(window)

\* percentage >= PERIOD_FEATURE_ZSCORE_THRESHOLD for value_counts(normalize=True)
ShareAtLeastThreshold(window, c) ==
    CountOf(window, c) * PERIOD_FEATURE_ZSCORE_THRESHOLD_DEN
        >= PERIOD_FEATURE_ZSCORE_THRESHOLD_NUM * Len(window)

\* Mutant: the unknown country "ZZ" is flagged like any other
QualifiesUnknownToo(window, c, baseline) ==
    /\ c # baseline
    /\ ShareAtLeastThreshold(window, c)

Qualifies(window, c, baseline) ==
    /\ c # "ZZ"
    /\ c # baseline
    /\ ShareAtLeastThreshold(window, c)

\* The anomalies dict of one window, as its set of items.  The loop assigns
\* anomalies["country"] for every qualifying value in descending order of
\* share, so the last (least frequent) qualifying value stays.
WindowAnomalies(window, baseline) ==
    LET q == {c \in ValuesOf(window) : Qualifies(window, c, baseline)}
    IN IF q = {} THEN {}
       ELSE {<<"country",
               CHOOSE c \in q : \A d \in q : CountOf(window, c) <= CountOf(window, d)>>}

RECURSIVE ScanWindows(_, _, _, _, _)
ScanWindows(table, baseline, current_date, end_date, detected) ==
    IF current_date + (WINDOW_SIZE_DAYS - 1) > end_date THEN detected
    ELSE LET window == Slice(table, current_date, current_date + (WINDOW_SIZE_DAYS - 1))
             anomalies == WindowAnomalies(window, baseline)
         IN IF window = <<>> \/ anomalies = {}
            THEN ScanWindows(table, baseline, current_date + STEP_SIZE_DAYS,
                             end_date, detected)
            ELSE ScanWindows(table, baseline, current_date + STEP_SIZE_DAYS, end_date,
                             Append(detected,
                                    [start_date |-> window[1].t,
                                     end_date |-> window[Len(window)].t,
                                     anomalies |-> anomalies]))

\* On an empty table index.min() and index.max() are NaT, the loop test
\* NaT + Timedelta <= NaT is False and the body never runs
\* The windows the loop visits: current_date starts at index.min() and
\* advances by STEP_SIZE_DAYS while current_date + (WINDOW_SIZE_DAYS - 1) days
\* <= index.max()
RECURSIVE ScannedFrom(_, _)
ScannedFrom(current_date, end_date) ==
    IF current_date + (WINDOW_SIZE_DAYS - 1) > end_date THEN <<>>
    ELSE <<[current_date |-> current_date,
            window_end_date |-> current_date + (WINDOW_SIZE_DAYS - 1)]>>
         \o ScannedFrom(current_date + STEP_SIZE_DAYS, end_date)

ScannedWindows(table) ==
    IF table = <<>> THEN <<>> ELSE ScannedFrom(table[1].t, table[Len(table)].t)

detect_categorical_anomalies(table, baseline) ==
    IF table = <<>> THEN <<>>
    ELSE ScanWindows(table, baseline, table[1].t, table[Len(table)].t, <<>>)

-----------------------------------------------------------------------------
(* merge_consecutive_windows, src/pf_periods.py *)

\* list.sort(key=start_date): stable insertion by start_date
RECURSIVE InsertByStart(_, _)
InsertByStart(sorted, w) ==
    IF sorted = <<>> THEN <<w>>
    ELSE IF sorted[Len(sorted)].start_date <= w.start_date THEN Append(sorted, w)
    ELSE Append(InsertByStart(SubSeq(sorted, 1, Len(sorted) - 1), w),
                sorted[Len(sorted)])

RECURSIVE SortByStart(_)
SortByStart(ws) ==
    IF ws = <<>> THEN <<>>
    ELSE InsertByStart(SortByStart(SubSeq(ws, 1, Len(ws) - 1)), ws[Len(ws)])

\* Mutant: a gap of exactly STEP_SIZE_DAYS no longer merges
ShouldMergeStrictGap(cur, next_window) ==
    /\ next_window.anomalies = cur.anomalies
    /\ next_window.start_date - cur.end_date < STEP_SIZE_DAYS

\* Mutant: the anomaly sets are not compared
ShouldMergeAnyAnomalies(cur, next_window) ==
    next_window.start_date - cur.end_date <= STEP_SIZE_DAYS

\* The test of the loop body: same anomaly set and time_gap <= STEP_SIZE_DAYS
ShouldMerge(cur, next_window) ==
    /\ next_window.anomalies = cur.anomalies
    /\ next_window.start_date - cur.end_date <= STEP_SIZE_DAYS

-----------------------------------------------------------------------------
(* create_period_from_data, src/pf_periods.py *)

\* next(iter(anomalies.items())): the single item of the anomalies dict
FirstAnomaly(anomalies) == CHOOSE a \in anomalies : TRUE

create_period_from_data(period_data, table) ==
    LET period_df == Slice(table, period_data.start_date, period_data.end_date)
        anomaly_value == FirstAnomaly(period_data.anomalies)[2]
    IN [tracks |-> SelectSeq(period_df, LAMBDA e : e.country = anomaly_value),
        contributing_features |-> period_data.anomalies,
        start_date |-> period_data.start_date,
        end_date |-> period_data.end_date,
        duration_days |-> (period_data.end_date - period_data.start_date) + 1]

-----------------------------------------------------------------------------
(* The period pipeline as a state machine *)

\* Dense tables (an event every day) over three countries, and sparse
\* tables (days without events) over two
DenseCells == PeriodCountries
SparseCells == {"US", "FR", None}

\* A component that is not running keeps its variables at these values
IdleSlotStats ==
    /\ slot_events = <<>>
    /\ slot_stats = <<>>

IdleCluster ==
    /\ audio_columns = {}
    /\ labels = <<>>
    /\ label_runs = <<>>

IdleFindPatterns ==
    /\ fp_df = <<>>
    /\ fp_baseline = <<>>
    /\ baseline_calls = 0
    /\ handed = <<>>
    /\ all_patterns = <<>>
    /\ returned = <<>>

IdleSchemas ==
    /\ schema_table = <<>>
    /\ schema_i = 0
    /\ slotted = <<>>
    /\ schema_stats = <<>>

IdleMergeInput ==
    /\ flagged_windows = <<>>

IdleRobustGet ==
    /\ rg_elapsed = 0
    /\ rg_event = ""
    /\ rg_wait = 0
    /\ rg_outcome = ""
    /\ rg_status = 0

IdlePhase1 ==
    /\ total_batches = 0
    /\ batch_idx = 0
    /\ recco_track_infos = <<>>
    /\ last_checkpoint_at_batch = 0
    /\ p1_outcome = ""
    /\ p1_waits = 0
    /\ exit_status = 0
    /\ error_csv = <<>>

IdlePhase2 ==
    /\ total = 0
    /\ track_idx = 0
    /\ features = <<>>
    /\ last_checkpoint_at_features = 0
    /\ batch_results = <<>>
    /\ p2_waits = 0
    /\ p2_error_csv = <<>>

IdlePlaylists ==
    /\ sorted_tracks = <<>>
    /\ max_per_artist = <<>>
    /\ unique_tracks = <<>>
    /\ diverse_tracks = <<>>
    /\ generated_playlists = <<>>

IdleFindPeriods ==
    /\ full_period_tracks = <<>>
    /\ period_anomalies = {}
    /\ patterns = <<>>

IdlePeriods ==
    /\ df = <<>>
    /\ baseline_country = "US"
    /\ detected_windows = <<>>
    /\ current_period = 0
    /\ merge_i = 0
    /\ merged_periods = <<>>
    /\ periods = <<>>

IdleSelect ==
    /\ stats = <<>>
    /\ selected = <<>>

IdleProcessing ==
    /\ pattern_tracks = <<>>
    /\ tracks_with_popularity = <<>>
    /\ detected_patterns = <<>>
    /\ num_songs = 0
    /\ top_tracks_map = <<>>

IdleFindHabits ==
    /\ slot_groups = <<>>
    /\ habit_baseline = <<>>
    /\ kmeans_labels = <<>>
    /\ habits = <<>>

InitPeriodState ==
    /\ pc = "start"
    /\ IdleFindPeriods
    /\ IdleSelect
    /\ IdleFindHabits
    /\ IdleProcessing
    /\ IdleSlotStats
    /\ IdleCluster
    /\ IdleFindPatterns
    /\ IdleSchemas
    /\ IdleMergeInput
    /\ IdleRobustGet
    /\ IdlePhase1
    /\ IdlePhase2
    /\ IdlePlaylists
    /\ detected_windows = <<>>
    /\ current_period = 0
    /\ merge_i = 0
    /\ merged_periods = <<>>
    /\ periods = <<>>

\* Long tables, at most one event a day, first event on day 0
InitPeriods ==
    /\ \E f \in [0..MaxDay -> DenseCells] \cup [0..MaxDay -> SparseCells] :
          /\ f[0] # None
          /\ df = TableOf(f, MaxDay)
    /\ baseline_country = "US"
    /\ InitPeriodState

\* Short tables with several events a day (and the empty table)
InitDetect ==
    /\ df \in ShortTables
    /\ baseline_country \in {"US", "FR"}
    /\ InitPeriodState

Detect ==
    /\ pc = "start"
    /\ detected_windows'= detect_categorical_anomalies(df, baseline_country)
    /\ pc' = "detected"
    /\ UNCHANGED <<df, baseline_country, current_period, merge_i, merged_periods,
                   periods, nonPeriodVars>>

\* merge_consecutive_windows up to the loop: the early return on an empty
\* list, else the in-place sort and current_period = detected_windows[0]
MergeStart ==
    /\ pc = "detected"
    /\ \/ /\ detected_windows = <<>>
          /\ pc' = "merged"
          /\ UNCHANGED <<detected_windows, current_period, merge_i>>
       \/ /\ detected_windows # <<>>
          /\ detected_windows' = SortByStart(detected_windows)
          /\ current_period' = 1
          /\ merge_i' = 2
          /\ pc' = "merging"
    /\ merged_periods' = <<>>
    /\ UNCHANGED <<df, baseline_country, periods, nonPeriodVars>>

\* One iteration of the loop over detected_windows[1:].  current_period is
\* the dict object held in the list, so extending it writes through.
MergeStep ==
    /\ pc = "merging"
    /\ merge_i <= Len(detected_windows)
    /\ LET cur == detected_windows[current_period]
           next_window == detected_windows[merge_i]
       IN IF ShouldMerge(cur, next_window)
          THEN /\ detected_windows' =
                    [detected_windows EXCEPT ![current_period].end_date =
                         Max(cur.end_date, next_window.end_date)]
               /\ UNCHANGED <<current_period, merged_periods>>
          ELSE /\ merged_periods' = Append(merged_periods, cur)
               /\ current_period' = merge_i
               /\ UNCHANGED detected_windows
    /\ merge_i' = merge_i + 1
    /\ UNCHANGED <<pc, df, baseline_country, periods, nonPeriodVars>>

\* After the loop: merged_periods.append(current_period); return
MergeFinish ==
    /\ pc = "merging"
    /\ merge_i > Len(detected_windows)
    /\ merged_periods' = Append(merged_periods, detected_windows[current_period])
    /\ pc' = "merged"
    /\ UNCHANGED <<df, baseline_country, detected_windows, current_period, merge_i,
                   periods, nonPeriodVars>>

CreatePeriods ==
    /\ pc = "merged"
    /\ periods' = [i \in 1..Len(merged_periods) |->
                       create_period_from_data(merged_periods[i], df)]
    /\ pc' = "done"
    /\ UNCHANGED <<df, baseline_country, detected_windows, current_period, merge_i,
                   merged_periods, nonPeriodVars>>

NextPeriods == Detect \/ MergeStart \/ MergeStep \/ MergeFinish \/ CreatePeriods

SpecPeriods == InitPeriods /\ [][NextPeriods]_vars

\* Tables whose events name their (track, artist) pair: one event a day on
\* days 0..MaxTrackDay
MaxTrackDay == 4
TrackPairs == {1, 2}

InitPeriodTracks ==
    /\ \E c \in [0..MaxTrackDay -> {"US", "FR"}], k \in [0..MaxTrackDay -> TrackPairs] :
          df = [i \in 1..(MaxTrackDay + 1) |->
                   [t |-> i - 1, country |-> c[i - 1], track_artist |-> k[i - 1]]]
    /\ baseline_country = "US"
    /\ InitPeriodState

SpecPeriodTracks == InitPeriodTracks /\ [][NextPeriods]_vars

\* The empty table, and tables of up to one event a day on days
\* 0..MaxEdgeDay, days without events and unknown countries included
MaxEdgeDay == 4
EdgeCells == {"US", "FR", "ZZ", None}

InitEdgeTables ==
    /\ \/ df = <<>>
       \/ \E f \in [0..MaxEdgeDay -> EdgeCells] :
             /\ f[0] # None
             /\ df = TableOf(f, MaxEdgeDay)
    /\ baseline_country \in {"US", "FR"}
    /\ InitPeriodState

SpecEdgeTables == InitEdgeTables /\ [][NextPeriods]_vars

\* merge_consecutive_windows on lists of up to MaxMergeWindows flagged
\* windows in any order, overlapping, adjacent or apart, of two countries
MaxMergeWindows == 3
MergeIntervals == {<<0, 0>>, <<0, 1>>, <<1, 2>>, <<2, 2>>, <<3, 3>>, <<0, 3>>}
FlaggedWindowChoices ==
    {[start_date |-> i[1], end_date |-> i[2], anomalies |-> {<<"country", c>>}] :
        i \in MergeIntervals, c \in {"FR", "DE"}}

InitMergeLists ==
    /\ pc = "detected"
    /\ df = <<>>
    /\ baseline_country = "US"
    /\ detected_windows \in UNION {[1..n -> FlaggedWindowChoices] : n \in 0..MaxMergeWindows}
    /\ flagged_windows = detected_windows
    /\ current_period = 0
    /\ merge_i = 0
    /\ merged_periods = <<>>
    /\ periods = <<>>
    /\ IdleFindPeriods
    /\ IdleSelect
    /\ IdleFindHabits
    /\ IdleProcessing
    /\ IdleSlotStats
    /\ IdleCluster
    /\ IdleFindPatterns
    /\ IdleSchemas
    /\ IdleRobustGet
    /\ IdlePhase1
    /\ IdlePhase2
    /\ IdlePlaylists

NextMerge == MergeStart \/ MergeStep \/ MergeFinish

SpecMergeLists == InitMergeLists /\ [][NextMerge]_vars

\* The window scan alone, on the short tables
NextDetect == Detect

SpecDetect == InitDetect /\ [][NextDetect]_vars

-----------------------------------------------------------------------------
(* find_periods, src/pattern_finder.py: what becomes of one merged period *)

\* The thresholds find_periods sets for itself
MIN_DURATION_DAYS == 7
FP_MIN_TRACKS_FOR_PLAYLIST == 30
FP_WINDOW_SIZE == 100
FP_STEP_SIZE == 50

\* The configured thresholds, src/constants.py
PERIOD_MIN_DAYS == 2
MIN_TRACKS_FOR_PLAYLIST == 15

\* contributing_tracks[contributing_tracks[feature] == value], for every
\* item of the anomalies dict
ContributingTracks(tracks, anomalies) ==
    SelectSeq(tracks, LAMBDA e : \A a \in anomalies : e[a[1]] = a[2])

\* drop_duplicates(subset=["track", "artist"], keep="first")
DropDuplicatePairs(tracks) ==
    LET kept == {i \in 1..Len(tracks) :
                    \A j \in 1..(i - 1) : tracks[j].track_artist # tracks[i].track_artist}
    IN [k \in 1..Cardinality(kept) |->
           tracks[CHOOSE i \in kept : Cardinality({j \in kept : j <= i}) = k]]

\* (end_date - start_date).days + 1 over the dates of the first and last
\* event of the merged period
DurationDays(tracks) == (tracks[Len(tracks)].datetime - tracks[1].datetime) + 1

\* len(unique tracks) * duration_days * num_features ** 2, times 5 with a
\* country anomaly, times 3 with a valence anomaly
PeriodScore(unique, duration_days, anomalies) ==
    unique * duration_days * Cardinality(anomalies) * Cardinality(anomalies)
    * (IF \E a \in anomalies : a[1] = "country" THEN 5 ELSE 1)
    * (IF \E a \in anomalies : a[1] = "valence" THEN 3 ELSE 1)

\* The body of the loop over merged_periods: the Period appended to
\* patterns, or nothing after a `continue`
PeriodsEmittedFor(tracks, anomalies) ==
    LET unique_contributing_tracks ==
            DropDuplicatePairs(ContributingTracks(tracks, anomalies))
    IN IF Len(unique_contributing_tracks) < FP_MIN_TRACKS_FOR_PLAYLIST THEN <<>>
       ELSE IF DurationDays(tracks) < MIN_DURATION_DAYS THEN <<>>
       ELSE <<[tracks |-> unique_contributing_tracks,
               contributing_features |-> anomalies,
               start_date |-> tracks[1].datetime,
               end_date |-> tracks[Len(tracks)].datetime,
               score |-> PeriodScore(Len(unique_contributing_tracks),
                                     DurationDays(tracks), anomalies)]>>

\* Merged periods of find_periods: a window of FP_WINDOW_SIZE events,
\* extended by none or one step of FP_STEP_SIZE events; the events lie on
\* `days` consecutive days, carry `pairs` different (track, artist) pairs in
\* rotation, and all have country "FR", or every fifth has the baseline "US".
PeriodSizes == {FP_WINDOW_SIZE, FP_WINDOW_SIZE + FP_STEP_SIZE}
PairCounts == {14, 15, 16, 29, 30, 31}
DayCounts == {1, 2, 3, 6, 7, 8}

MergedPeriodTracks(n, pairs, days, mixed) ==
    [i \in 1..n |->
        [datetime |-> ((i - 1) * (days - 1)) \div (n - 1),
         track_artist |-> i % pairs,
         country |-> IF mixed /\ i % 5 = 0 THEN "US" ELSE "FR"]]

InitFindPeriods ==
    /\ pc = "period"
    /\ \E n \in PeriodSizes, pairs \in PairCounts, days \in DayCounts, mixed \in BOOLEAN :
          full_period_tracks = MergedPeriodTracks(n, pairs, days, mixed)
    /\ period_anomalies = {<<"country", "FR">>}
    /\ patterns = <<>>
    /\ IdlePeriods
    /\ IdleSelect
    /\ IdleFindHabits
    /\ IdleProcessing
    /\ IdleSlotStats
    /\ IdleCluster
    /\ IdleFindPatterns
    /\ IdleSchemas
    /\ IdleMergeInput
    /\ IdleRobustGet
    /\ IdlePhase1
    /\ IdlePhase2
    /\ IdlePlaylists

EmitPeriod ==
    /\ pc = "period"
    /\ patterns' = patterns \o PeriodsEmittedFor(full_period_tracks, period_anomalies)
    /\ pc' = "period_done"
    /\ UNCHANGED <<full_period_tracks, period_anomalies, nonFindPeriodsVars>>

NextFindPeriods == EmitPeriod

SpecFindPeriods == InitFindPeriods /\ [][NextFindPeriods]_vars

-----------------------------------------------------------------------------
(* select_habit_slots, src/pf_habits.py *)

\* src/constants.py; the z-score thresholds 0.8 and 0.5 in tenths, as the
\* z-scores of the model are
HABIT_MIN_WEEKS == 6
HABIT_MIN_STREAMS_PER_SLOT == 100
HABIT_FEATURE_ZSCORE_THRESHOLD_X10 == 8
HABIT_BEHAVIORAL_ZSCORE_THRESHOLD_X10 == 5
HABIT_MIN_NUM_FEATURES == 3
HABIT_MAX_SLOTS_PER_SCHEMA == 3

NUMERICAL_FEATURES_TO_CHECK ==
    {"tempo", "speechiness", "liveness", "acousticness", "energy", "danceability",
     "loudness", "valence", "instrumentalness"}

HABIT_BEHAVIORAL_FEATURES ==
    {"attention_span", "skipped", "session_length", "session_duration_min"}

\* A possibly undefined number: <<>> is NaN, <<x>> the number x
NaN == <<>>
Num(x) == <<x>>
ValueOf(v) == v[1]

Abs(x) == IF x < 0 THEN -x ELSE x

\* Exact fractions <<numerator, denominator>>, denominator > 0, in lowest terms
RECURSIVE GCD(_, _)
GCD(a, b) == IF b = 0 THEN a ELSE GCD(b, a % b)

Frac(n, d) == LET g == GCD(Abs(n), d) IN <<n \div g, d \div g>>
FracAdd(a, b) == Frac(a[1] * b[2] + b[1] * a[2], a[2] * b[2])
FracMul(a, b) == Frac(a[1] * b[1], a[2] * b[2])
FracLess(a, b) == a[1] * b[2] < b[1] * a[2]

\* Sum of the fractions term[x] over the finite set S
RECURSIVE FracSum(_, _)
FracSum(S, term) ==
    IF S = {} THEN <<0, 1>>
    ELSE LET x == CHOOSE y \in S : TRUE
         IN FracAdd(term[x], FracSum(S \ {x}, term))

\* row.get(f"{feat}_z", 0.0)
ZOf(row, feat) == IF feat \in DOMAIN row.z THEN row.z[feat] ELSE Num(0)

\* Mutant: behavioral features are held to the audio threshold
IsDeviatingOneThreshold(row, feat) ==
    LET z == ZOf(row, feat)
    IN z # NaN /\ Abs(ValueOf(z)) >= HABIT_FEATURE_ZSCORE_THRESHOLD_X10

\* pd.notna(z) and abs(z) >= threshold, the threshold by the feature's list
IsDeviating(row, feat) ==
    LET z == ZOf(row, feat)
    IN /\ z # NaN
       /\ Abs(ValueOf(z)) >= (IF feat \in NUMERICAL_FEATURES_TO_CHECK
                              THEN HABIT_FEATURE_ZSCORE_THRESHOLD_X10
                              ELSE HABIT_BEHAVIORAL_ZSCORE_THRESHOLD_X10)

deviating_feature_count(row) ==
    Cardinality({feat \in NUMERICAL_FEATURES_TO_CHECK \cup HABIT_BEHAVIORAL_FEATURES :
                    IsDeviating(row, feat)})

IsEligible(row) ==
    /\ row.count >= HABIT_MIN_STREAMS_PER_SLOT
    /\ row.weeks >= HABIT_MIN_WEEKS
    /\ deviating_feature_count(row) >= HABIT_MIN_NUM_FEATURES

\* Mutant: the count ascending
RanksBeforeCountAscending(a, b) ==
    \/ deviating_feature_count(a) > deviating_feature_count(b)
    \/ /\ deviating_feature_count(a) = deviating_feature_count(b)
       /\ a.count < b.count

\* a comes before b under sort_values(["_num_dev_feats", "count"],
\* ascending=[False, False])
RanksBefore(a, b) ==
    \/ deviating_feature_count(a) > deviating_feature_count(b)
    \/ /\ deviating_feature_count(a) = deviating_feature_count(b)
       /\ a.count > b.count

\* The sort is stable: rows of equal rank keep their order
RECURSIVE InsertByRank(_, _)
InsertByRank(sorted, row) ==
    IF sorted = <<>> THEN <<row>>
    ELSE IF RanksBefore(row, sorted[Len(sorted)])
         THEN Append(InsertByRank(SubSeq(sorted, 1, Len(sorted) - 1), row),
                     sorted[Len(sorted)])
         ELSE Append(sorted, row)

RECURSIVE SortByRank(_)
SortByRank(rows) ==
    IF rows = <<>> THEN <<>>
    ELSE InsertByRank(SortByRank(SubSeq(rows, 1, Len(rows) - 1)), rows[Len(rows)])

FirstRows(rows, n) == SubSeq(rows, 1, IF Len(rows) < n THEN Len(rows) ELSE n)

select_habit_slots(table) ==
    IF table = <<>> THEN <<>>
    ELSE LET eligible == SortByRank(SelectSeq(table, IsEligible))
             top == FirstRows(eligible, HABIT_MAX_SLOTS_PER_SCHEMA)
         IN [k \in 1..Len(top) |-> top[k].slot]

\* One-row statistics tables of every shape: two audio and two behavioral
\* feature columns, z-scores in tenths around both thresholds, counts and
\* week counts around their minimums
StatsFeatures == {"energy", "tempo", "skipped", "attention_span"}
ZValues == {NaN, Num(4), Num(5), Num(8), Num(-8)}
SlotCounts == {HABIT_MIN_STREAMS_PER_SLOT - 1, HABIT_MIN_STREAMS_PER_SLOT}
SlotWeeks == {HABIT_MIN_WEEKS - 1, HABIT_MIN_WEEKS}

InitSelectRow ==
    /\ pc = "select"
    /\ \/ stats = <<>>
       \/ \E z \in [StatsFeatures -> ZValues], c \in SlotCounts, w \in SlotWeeks :
             stats = <<[slot |-> 1, count |-> c, weeks |-> w, z |-> z]>>
    /\ selected = <<>>
    /\ IdlePeriods
    /\ IdleFindPeriods
    /\ IdleFindHabits
    /\ IdleProcessing
    /\ IdleSlotStats
    /\ IdleCluster
    /\ IdleFindPatterns
    /\ IdleSchemas
    /\ IdleMergeInput
    /\ IdleRobustGet
    /\ IdlePhase1
    /\ IdlePhase2
    /\ IdlePlaylists

SelectHabitSlots ==
    /\ pc = "select"
    /\ selected' = select_habit_slots(stats)
    /\ pc' = "selected"
    /\ UNCHANGED <<stats, nonSelectVars>>

NextSelect == SelectHabitSlots

SpecSelectRow == InitSelectRow /\ [][NextSelect]_vars

\* Statistics tables of several rows around the cap: rows with two, three
\* or four deviating features and two counts, all with enough weeks
MaxSelectRows == 5
ZWithDeviations(n) ==
    [feat \in StatsFeatures |->
        IF feat = "energy" THEN Num(8)
        ELSE IF feat = "tempo" THEN Num(-8)
        ELSE IF feat = "skipped" THEN (IF n >= 3 THEN Num(8) ELSE Num(4))
        ELSE (IF n >= 4 THEN Num(8) ELSE NaN)]
RowShapes ==
    {<<2, HABIT_MIN_STREAMS_PER_SLOT>>, <<3, HABIT_MIN_STREAMS_PER_SLOT>>,
     <<3, HABIT_MIN_STREAMS_PER_SLOT + 20>>, <<4, HABIT_MIN_STREAMS_PER_SLOT>>}
SelectTables ==
    UNION {{[k \in 1..n |-> [slot |-> k, count |-> shapes[k][2], weeks |-> HABIT_MIN_WEEKS,
                             z |-> ZWithDeviations(shapes[k][1])]] :
               shapes \in [1..n -> RowShapes]} :
           n \in (HABIT_MAX_SLOTS_PER_SCHEMA - 1)..MaxSelectRows}

InitSelectTable ==
    /\ pc = "select"
    /\ stats \in SelectTables
    /\ selected = <<>>
    /\ IdlePeriods
    /\ IdleFindPeriods
    /\ IdleFindHabits
    /\ IdleProcessing
    /\ IdleSlotStats
    /\ IdleCluster
    /\ IdleFindPatterns
    /\ IdleSchemas
    /\ IdleMergeInput
    /\ IdleRobustGet
    /\ IdlePhase1
    /\ IdlePhase2
    /\ IdlePlaylists

SpecSelectTable == InitSelectTable /\ [][NextSelect]_vars

-----------------------------------------------------------------------------
(* find_habits, src/pattern_finder.py, and the cluster labels of
   cluster_audio_profiles, src/pf_habits.py *)

\* The thresholds find_habits sets for itself; STD_DEV_THRESHOLD = 1.1 is
\* kept as 11/10
FH_MIN_TRACKS_PER_SLOT == 50
STD_DEV_THRESHOLD_X10 == 11
MAX_FEATURE_COMBINATION == 3

\* src/constants.py; HABIT_MIN_CLUSTER_SHARE = 0.6 is kept as 6/10
HABIT_AUDIO_CLUSTER_K == 5
HABIT_MIN_CLUSTER_SHARE_X10 == 6
HABIT_MIN_CLUSTER_WEEKS == 6

\* The features of the table, in the order find_habits checks them
HabitFeatures == <<"valence", "energy">>

\* The kinds of event of the table: feature values in tenths.  A group
\* holds kinds[k] events of kind k.
EventKinds ==
    <<[valence |-> Num(8), energy |-> Num(5)],
      [valence |-> Num(8), energy |-> NaN],
      [valence |-> Num(2), energy |-> Num(5)]>>

KindIds == 1..Len(EventKinds)

GroupSize(g) == g.kinds[1] + g.kinds[2] + g.kinds[3]

\* group[feature].mean() as <<sum, count>> over the defined values; the
\* mean is undefined when count = 0
FeatureSum(g, feature) ==
    LET defined == {k \in KindIds : EventKinds[k][feature] # NaN}
        val(k) == IF k \in defined THEN ValueOf(EventKinds[k][feature]) ELSE 0
        cnt(k) == IF k \in defined THEN g.kinds[k] ELSE 0
    IN <<g.kinds[1] * val(1) + g.kinds[2] * val(2) + g.kinds[3] * val(3),
         cnt(1) + cnt(2) + cnt(3)>>

\* slot_mean > mean + STD_DEV_THRESHOLD * std
IsHigh(g, feature, base) ==
    LET m == FeatureSum(g, feature)
    IN /\ m[2] > 0
       /\ 10 * m[1] > m[2] * (10 * base[feature].mean + STD_DEV_THRESHOLD_X10 * base[feature].std)

\* slot_mean < mean - STD_DEV_THRESHOLD * std
IsLow(g, feature, base) ==
    LET m == FeatureSum(g, feature)
    IN /\ m[2] > 0
       /\ 10 * m[1] < m[2] * (10 * base[feature].mean - STD_DEV_THRESHOLD_X10 * base[feature].std)

\* slot_deviations: the deviating features with their direction, in the
\* order of the feature list
RECURSIVE SlotDeviations(_, _, _)
SlotDeviations(g, base, n) ==
    IF n = 0 THEN <<>>
    ELSE LET feature == HabitFeatures[n]
             before == SlotDeviations(g, base, n - 1)
         IN IF feature \notin DOMAIN base THEN before
            ELSE IF IsHigh(g, feature, base) THEN Append(before, <<feature, "High">>)
            ELSE IF IsLow(g, feature, base) THEN Append(before, <<feature, "Low">>)
            ELSE before

\* itertools.combinations(range(lo, n + 1), k), in its order
RECURSIVE Combinations(_, _, _)
Combinations(lo, n, k) ==
    IF k = 0 THEN <<<<>>>>
    ELSE IF lo > n THEN <<>>
    ELSE LET with == Combinations(lo + 1, n, k - 1)
         IN [j \in 1..Len(with) |-> <<lo>> \o with[j]] \o Combinations(lo + 1, n, k)

\* The Habits of one group: one for every combination of 1 up to
\* MAX_FEATURE_COMBINATION of its deviations (the score is left out)
\* abs(slot_mean - mean) / std
Magnitude(g, feature, base) ==
    LET m == FeatureSum(g, feature)
    IN Frac(Abs(m[1] - m[2] * base[feature].mean), m[2] * base[feature].std)

\* len(group) * total_magnitude * i ** 2
HabitScore(g, combo, base) ==
    FracMul(<<GroupSize(g) * Len(combo) * Len(combo), 1>>,
            FracSum(1..Len(combo),
                    [c \in 1..Len(combo) |-> Magnitude(g, combo[c], base)]))

RECURSIVE HabitsOfSize(_, _, _, _)
HabitsOfSize(g, devs, i, base) ==
    IF i = 0 THEN <<>>
    ELSE LET combos == Combinations(1, Len(devs), i)
         IN HabitsOfSize(g, devs, i - 1, base) \o
            [j \in 1..Len(combos) |->
                [time_slot |-> g.slot,
                 contributing_features |->
                     [c \in 1..i |-> devs[combos[j][c]]],
                 score |-> HabitScore(g, [c \in 1..i |-> devs[combos[j][c]][1]], base)]]

HabitsOfGroup(g, base) ==
    IF GroupSize(g) < FH_MIN_TRACKS_PER_SLOT THEN <<>>
    ELSE LET devs == SlotDeviations(g, base, Len(HabitFeatures))
         IN HabitsOfSize(g, devs,
                         IF Len(devs) < MAX_FEATURE_COMBINATION
                         THEN Len(devs) ELSE MAX_FEATURE_COMBINATION,
                         base)

RECURSIVE find_habits(_, _, _)
find_habits(groups, base, n) ==
    IF n = 0 THEN <<>>
    ELSE find_habits(groups, base, n - 1) \o HabitsOfGroup(groups[n], base)

\* cluster_audio_profiles: the rows with every audio feature defined
UsableKinds == {k \in KindIds : \A i \in 1..Len(HabitFeatures) : EventKinds[k][HabitFeatures[i]] # NaN}

UsableRows(groups) ==
    LET per(g) == (IF 1 \in UsableKinds THEN g.kinds[1] ELSE 0)
                  + (IF 2 \in UsableKinds THEN g.kinds[2] ELSE 0)
                  + (IF 3 \in UsableKinds THEN g.kinds[3] ELSE 0)
    IN per(groups[1]) + per(groups[2])

\* mask.sum() <= HABIT_AUDIO_CLUSTER_K * 3
AtMostThreeKUsableRows(groups) == UsableRows(groups) <= HABIT_AUDIO_CLUSTER_K * 3

\* mask.sum() < HABIT_AUDIO_CLUSTER_K * 3
FewerThanThreeKUsableRows(groups) == UsableRows(groups) < HABIT_AUDIO_CLUSTER_K * 3

\* The label of the events of kind k: -1 for every row when fewer than two
\* audio features or fewer than 3 * K usable rows, -1 for a row with an
\* undefined feature, else the label K-means gives
cluster_audio_profiles(groups, kmeans, k) ==
    IF Len(HabitFeatures) < 2 THEN -1
    ELSE IF FewerThanThreeKUsableRows(groups) THEN -1
    ELSE IF k \notin UsableKinds THEN -1
    ELSE kmeans[k]

\* Two slots; each kind of event is absent from a slot or comes in a block
KindCounts == {0, 5, 30}
GroupWeeks == {5, 6}
BaselineMeans == {4, 5}
BaselineStd == 2
\* K-means may give the usable kinds any labels; two labels suffice to put
\* them in one cluster or in several
KMeansChoices == [KindIds -> {0, 1}]

InitFindHabits ==
    /\ pc = "habits"
    /\ \E k1 \in [KindIds -> KindCounts], k2 \in [KindIds -> {0, 30}], w \in GroupWeeks :
          slot_groups = <<[slot |-> <<"Monday", "Morning">>, kinds |-> k1, weeks |-> w],
                          [slot |-> <<"Sunday", "Evening">>, kinds |-> k2, weeks |-> 8]>>
    /\ \E m \in BaselineMeans :
          habit_baseline = [f \in {"valence", "energy"} |-> [mean |-> m, std |-> BaselineStd]]
    /\ kmeans_labels \in KMeansChoices
    /\ habits = <<>>
    /\ IdlePeriods
    /\ IdleFindPeriods
    /\ IdleSelect
    /\ IdleProcessing
    /\ IdleSlotStats
    /\ IdleCluster
    /\ IdleFindPatterns
    /\ IdleSchemas
    /\ IdleMergeInput
    /\ IdleRobustGet
    /\ IdlePhase1
    /\ IdlePhase2
    /\ IdlePlaylists

FindHabits ==
    /\ pc = "habits"
    /\ habits' = find_habits(slot_groups, habit_baseline, Len(slot_groups))
    /\ pc' = "habits_done"
    /\ UNCHANGED <<slot_groups, habit_baseline, kmeans_labels, nonFindHabitsVars>>

NextFindHabits == FindHabits

SpecFindHabits == InitFindHabits /\ [][NextFindHabits]_vars

-----------------------------------------------------------------------------
(* _calculate_popularity, _filter_and_sort_habit_tracks,
   _filter_and_sort_generic_tracks and process_patterns,
   src/pattern_processing.py *)

\* The weights of the score, in tenths
WEIGHTS_COUNT_X10 == 5
WEIGHTS_SKIP_RATE_X10 == 3
WEIGHTS_ATTENTION_SPAN_X10 == 2

\* The tracks of the listening history: two uris are the same song
TrackUris == <<"u1", "u2", "u3">>
TrackOf(uri) == "t1"
ArtistOf(uri) == IF uri = "u3" THEN "a2" ELSE "a1"
TempoOf(uri) == IF uri = "u1" THEN 1 ELSE 9

\* One event; attention_span, energy and tempo are in tenths or NaN
TrackRow(uri, skipped, attention_span, energy) ==
    [spotify_track_uri |-> uri, track |-> TrackOf(uri), artist |-> ArtistOf(uri),
     skipped |-> skipped, attention_span |-> attention_span,
     energy |-> energy, tempo |-> Num(TempoOf(uri))]

UrisOf(tracks) == {tracks[i].spotify_track_uri : i \in 1..Len(tracks)}

\* groupby("spotify_track_uri").agg(count, sum of skipped)
total_plays(tracks, uri) ==
    Cardinality({i \in 1..Len(tracks) : tracks[i].spotify_track_uri = uri})

total_skips(tracks, uri) ==
    Cardinality({i \in 1..Len(tracks) :
                    tracks[i].spotify_track_uri = uri /\ tracks[i].skipped = 1})

max_plays(tracks) ==
    CHOOSE n \in {total_plays(tracks, u) : u \in UrisOf(tracks)} :
        \A u \in UrisOf(tracks) : total_plays(tracks, u) <= n

\* total_plays / total plays of the pattern
PlaysOverAllPlays(tracks, uri) == Frac(total_plays(tracks, uri), Len(tracks))

\* total_plays / max_plays
normalized_plays(tracks, uri) == Frac(total_plays(tracks, uri), max_plays(tracks))

\* 1 - total_skips / total_plays
non_skip_rate(tracks, uri) ==
    Frac(total_plays(tracks, uri) - total_skips(tracks, uri), total_plays(tracks, uri))

\* The events of uri with a defined attention_span
AttentionEvents(tracks, uri) ==
    {i \in 1..Len(tracks) :
        tracks[i].spotify_track_uri = uri /\ tracks[i].attention_span # NaN}

\* dropna, groupby, mean: NaN for a uri with no defined attention_span
mean_attention_span(tracks, uri) ==
    LET events == AttentionEvents(tracks, uri)
        tenths == [i \in events |-> <<ValueOf(tracks[i].attention_span), 10>>]
    IN IF events = {} THEN NaN
       ELSE Num(FracMul(FracSum(events, tenths), <<1, Cardinality(events)>>))

\* The mean of all defined attention spans of the pattern, every event once
EventMeanAttention(tracks) ==
    LET events == UNION {AttentionEvents(tracks, u) : u \in UrisOf(tracks)}
        tenths == [i \in events |-> <<ValueOf(tracks[i].attention_span), 10>>]
    IN IF events = {} THEN NaN
       ELSE Num(FracMul(FracSum(events, tenths), <<1, Cardinality(events)>>))

\* track_stats["mean_attention_span"].mean(): every uri with a mean once
global_mean_attention(tracks) ==
    LET with == {u \in UrisOf(tracks) : mean_attention_span(tracks, u) # NaN}
        mean == [u \in with |-> ValueOf(mean_attention_span(tracks, u))]
    IN IF with = {} THEN NaN
       ELSE Num(FracMul(FracSum(with, mean), <<1, Cardinality(with)>>))

\* The attention component: 0 when no event has a defined attention_span,
\* else the uri's mean, the fill value where it has none
attention_score(tracks, uri) ==
    IF \A i \in 1..Len(tracks) : tracks[i].attention_span = NaN THEN <<0, 1>>
    ELSE LET global == global_mean_attention(tracks)
             fill_value == IF global # NaN THEN ValueOf(global) ELSE <<0, 1>>
             own == mean_attention_span(tracks, uri)
         IN IF own # NaN THEN ValueOf(own) ELSE fill_value

contextual_popularity_score(tracks, uri) ==
    FracAdd(FracMul(<<WEIGHTS_COUNT_X10, 10>>, normalized_plays(tracks, uri)),
            FracAdd(FracMul(<<WEIGHTS_SKIP_RATE_X10, 10>>, non_skip_rate(tracks, uri)),
                    FracMul(<<WEIGHTS_ATTENTION_SPAN_X10, 10>>, attention_score(tracks, uri))))

\* The left merge: every event with the score of its uri, in the order given
calculate_popularity(tracks) ==
    [i \in 1..Len(tracks) |->
        [spotify_track_uri |-> tracks[i].spotify_track_uri,
         track |-> tracks[i].track, artist |-> tracks[i].artist,
         skipped |-> tracks[i].skipped,
         attention_span |-> tracks[i].attention_span,
         energy |-> tracks[i].energy, tempo |-> tracks[i].tempo,
         contextual_popularity_score |->
             contextual_popularity_score(tracks, tracks[i].spotify_track_uri)]]

\* Series.quantile(q / 4), linear interpolation over the defined values, as
\* a fraction; NaN when no value is defined
RECURSIVE InsertValue(_, _)
InsertValue(s, v) ==
    IF s = <<>> THEN <<v>>
    ELSE IF v <= s[1] THEN <<v>> \o s
    ELSE <<s[1]>> \o InsertValue(Tail(s), v)

RECURSIVE SortedValues(_, _, _)
SortedValues(rows, feature, n) ==
    IF n = 0 THEN <<>>
    ELSE IF rows[n][feature] = NaN THEN SortedValues(rows, feature, n - 1)
    ELSE InsertValue(SortedValues(rows, feature, n - 1), ValueOf(rows[n][feature]))

quantile(rows, feature, q) ==
    LET x == SortedValues(rows, feature, Len(rows))
        lower == (q * (Len(x) - 1)) \div 4
        part == (q * (Len(x) - 1)) % 4
    IN IF x = <<>> THEN NaN
       ELSE IF part = 0 THEN Num(<<x[lower + 1], 1>>)
       ELSE Num(Frac(4 * x[lower + 1] + part * (x[lower + 2] - x[lower + 1]), 4))

\* tracks_to_show[feature] >= threshold
AtOrAboveThreshold(v, threshold) ==
    /\ v # NaN
    /\ threshold # NaN
    /\ ~FracLess(<<ValueOf(v), 1>>, ValueOf(threshold))

\* tracks_to_show[feature] > threshold
AboveThreshold(v, threshold) ==
    /\ v # NaN
    /\ threshold # NaN
    /\ FracLess(ValueOf(threshold), <<ValueOf(v), 1>>)

\* tracks_to_show[feature] < threshold
BelowThreshold(v, threshold) ==
    /\ v # NaN
    /\ threshold # NaN
    /\ FracLess(<<ValueOf(v), 1>>, ValueOf(threshold))

\* The rows at the positions kept, in order
SelectRows(rows, kept) ==
    LET nth(k) == CHOOSE i \in kept : Cardinality({j \in kept : j < i}) = k - 1
    IN [k \in 1..Cardinality(kept) |-> rows[nth(k)]]

\* The quartile filter of _filter_and_sort_habit_tracks
habit_tracks_to_show(p, rows) ==
    LET feature == p.contributing_features[1][1]
        direction == p.contributing_features[1][2]
        high(r) == AboveThreshold(r[feature], quantile(rows, feature, 3))
        low(r) == BelowThreshold(r[feature], quantile(rows, feature, 1))
    IN IF direction = "High"
       THEN SelectRows(rows, {i \in 1..Len(rows) : high(rows[i])})
       ELSE IF direction = "Low"
       THEN SelectRows(rows, {i \in 1..Len(rows) : low(rows[i])})
       ELSE rows

\* sort_values(ascending = False): the orders a sort may leave the rows in;
\* rows of equal score come in any order
SortOrders(rows) ==
    {order \in [1..Len(rows) -> 1..Len(rows)] :
        /\ \A i, j \in 1..Len(rows) : i # j => order[i] # order[j]
        /\ \A i, j \in 1..Len(rows) :
              i < j => ~FracLess(rows[order[i]].contextual_popularity_score,
                                 rows[order[j]].contextual_popularity_score)}

\* drop_duplicates(subset = ["track", "artist"], keep = "last")
drop_duplicates_keep_last(rows) ==
    SelectRows(rows, {i \in 1..Len(rows) :
                         \A j \in (i + 1)..Len(rows) :
                             <<rows[j].track, rows[j].artist>>
                                 # <<rows[i].track, rows[i].artist>>})

\* drop_duplicates(subset = ["track", "artist"]), keeping the first
drop_duplicates(rows) ==
    SelectRows(rows, {i \in 1..Len(rows) :
                         \A j \in 1..(i - 1) :
                             <<rows[j].track, rows[j].artist>>
                                 # <<rows[i].track, rows[i].artist>>})

\* head(n)
head(rows, n) == SubSeq(rows, 1, IF Len(rows) < n THEN Len(rows) ELSE n)

\* The rows sorted, made unique and cut, for one order of the sort
sort_dedupe_head(rows, order, n) ==
    head(drop_duplicates([i \in 1..Len(rows) |-> rows[order[i]]]), n)

\* The rows process_patterns ranks for pattern p
tracks_to_rank(p) ==
    IF p.pattern_type = "Habit"
    THEN habit_tracks_to_show(p, calculate_popularity(p.tracks))
    ELSE calculate_popularity(p.tracks)

\* Bounds of the tables
MaxPopularityRows == 3
MaxPatternRows == 3

RECURSIVE KindSeqs(_, _, _)
KindSeqs(n, lo, hi) ==
    IF n = 0 THEN {<<>>}
    ELSE UNION {{<<k>> \o s : s \in KindSeqs(n - 1, k, hi)} : k \in lo..hi}

AttentionValues == <<NaN, Num(5), Num(9)>>
EnergyValues == <<NaN, Num(2), Num(8)>>

\* Kind k of event of a popularity table: uri, skipped and attention_span vary
PopularityRow(k) ==
    TrackRow(TrackUris[(k % 3) + 1], (k \div 3) % 2,
             AttentionValues[((k \div 6) % 3) + 1], Num(5))

\* Kind k of event of a pattern: uri, skipped and energy vary
PatternRow(k) ==
    TrackRow(TrackUris[(k % 3) + 1], (k \div 3) % 2, NaN,
             EnergyValues[((k \div 6) % 3) + 1])

PopularityTables ==
    {[i \in 1..Len(s) |-> PopularityRow(s[i])] :
        s \in UNION {KindSeqs(n, 0, 17) : n \in 0..MaxPopularityRows}}

PatternTables ==
    {[i \in 1..Len(s) |-> PatternRow(s[i])] :
        s \in UNION {KindSeqs(n, 0, 17) : n \in 0..MaxPatternRows}}

\* Plays [10, 5, 1], skips [1, 0, 0], attention spans [0.9, 0.5, undefined]
ScenarioCTracks ==
    [i \in 1..16 |->
        IF i <= 10 THEN TrackRow("u1", IF i = 1 THEN 1 ELSE 0, Num(9), Num(5))
        ELSE IF i <= 15 THEN TrackRow("u2", 0, Num(5), Num(5))
        ELSE TrackRow("u3", 0, NaN, Num(5))]

\* Plays [2, 1, 1], attention spans [0.9 and 0.9, 0.5, undefined]
UnevenAttentionTracks ==
    <<TrackRow("u1", 0, Num(9), Num(5)), TrackRow("u1", 1, Num(9), Num(5)),
      TrackRow("u2", 0, Num(5), Num(5)), TrackRow("u3", 0, NaN, Num(5))>>

InitPopularity ==
    /\ pc = "popularity"
    /\ pattern_tracks \in PopularityTables \cup {ScenarioCTracks, UnevenAttentionTracks}
    /\ tracks_with_popularity = <<>>
    /\ detected_patterns = <<>>
    /\ num_songs = 0
    /\ top_tracks_map = <<>>
    /\ IdlePeriods
    /\ IdleFindPeriods
    /\ IdleSelect
    /\ IdleFindHabits
    /\ IdleSlotStats
    /\ IdleCluster
    /\ IdleFindPatterns
    /\ IdleSchemas
    /\ IdleMergeInput
    /\ IdleRobustGet
    /\ IdlePhase1
    /\ IdlePhase2
    /\ IdlePlaylists

CalculatePopularity ==
    /\ pc = "popularity"
    /\ tracks_with_popularity' = calculate_popularity(pattern_tracks)
    /\ pc' = "popularity_done"
    /\ UNCHANGED <<pattern_tracks, detected_patterns, num_songs, top_tracks_map,
                   nonProcessingVars>>

NextPopularity == CalculatePopularity

SpecPopularity == InitPopularity /\ [][NextPopularity]_vars

\* The patterns handed to process_patterns
PatternShapes ==
    {[pattern_type |-> "Period", name |-> "Period: country FR",
      contributing_features |-> <<<<"country", "FR">>>>],
     [pattern_type |-> "Habit", name |-> "Habit: High energy",
      contributing_features |-> <<<<"energy", "High">>>>],
     [pattern_type |-> "Habit", name |-> "Habit: Low energy",
      contributing_features |-> <<<<"energy", "Low">>>>],
     [pattern_type |-> "Habit", name |-> "Habit: High energy, Low tempo",
      contributing_features |-> <<<<"energy", "High">>, <<"tempo", "Low">>>>],
     [pattern_type |-> "Habit", name |-> "Habit: Low tempo, High energy",
      contributing_features |-> <<<<"tempo", "Low">>, <<"energy", "High">>>>]}

SongCounts == {1, 2}

InitProcess ==
    /\ pc = "process"
    /\ \E shape \in PatternShapes, tracks \in PatternTables :
          detected_patterns =
              <<[pattern_type |-> shape.pattern_type, name |-> shape.name,
                 contributing_features |-> shape.contributing_features,
                 tracks |-> tracks]>>
    /\ num_songs \in SongCounts
    /\ top_tracks_map = <<>>
    /\ pattern_tracks = <<>>
    /\ tracks_with_popularity = <<>>
    /\ IdlePeriods
    /\ IdleFindPeriods
    /\ IdleSelect
    /\ IdleFindHabits
    /\ IdleSlotStats
    /\ IdleCluster
    /\ IdleFindPatterns
    /\ IdleSchemas
    /\ IdleMergeInput
    /\ IdleRobustGet
    /\ IdlePhase1
    /\ IdlePhase2
    /\ IdlePlaylists

\* process_patterns: one entry of the map per pattern; the sort of each
\* pattern's rows may leave rows of equal score in any order
ProcessPatterns ==
    /\ pc = "process"
    /\ \E orders \in [1..Len(detected_patterns) ->
                        UNION {SortOrders(tracks_to_rank(detected_patterns[i])) :
                                  i \in 1..Len(detected_patterns)}] :
          /\ \A i \in 1..Len(detected_patterns) :
                orders[i] \in SortOrders(tracks_to_rank(detected_patterns[i]))
          /\ top_tracks_map' =
                [name \in {detected_patterns[i].name : i \in 1..Len(detected_patterns)} |->
                    LET last == CHOOSE i \in 1..Len(detected_patterns) :
                                    /\ detected_patterns[i].name = name
                                    /\ \A j \in (i + 1)..Len(detected_patterns) :
                                          detected_patterns[j].name # name
                    IN sort_dedupe_head(tracks_to_rank(detected_patterns[last]),
                                        orders[last], num_songs)]
    /\ pc' = "processed"
    /\ UNCHANGED <<pattern_tracks, tracks_with_popularity, detected_patterns,
                   num_songs, nonProcessingVars>>

NextProcess == ProcessPatterns

SpecProcess == InitProcess /\ [][NextProcess]_vars

\* format_slot_name, src/pf_habits.py: the name as the pieces of the
\* f-string; f"{int(hour):02d}:00" for the hours of the tables
HourText(hour) == IF hour = 8 THEN "08:00" ELSE "09:00"
Lower(text) == IF text = "Other" THEN "other" ELSE text

format_slot_name(schema, slot_key) ==
    CASE schema = "dow_hour" -> <<slot_key[1], " at ", HourText(slot_key[2])>>
      [] schema = "dow_hour_platform" ->
            IF Lower(slot_key[3]) = "other"
            THEN <<slot_key[1], " at ", HourText(slot_key[2])>>
            ELSE <<slot_key[1], " at ", HourText(slot_key[2]), " on ", slot_key[3]>>
      [] schema = "dow_platform" ->
            IF Lower(slot_key[2]) = "other" THEN <<slot_key[1]>>
            ELSE <<slot_key[1], " on ", slot_key[2]>>
      [] schema = "hour_platform" ->
            IF Lower(slot_key[2]) = "other" THEN <<HourText(slot_key[1])>>
            ELSE <<HourText(slot_key[1]), " on ", slot_key[2]>>

\* Two Habits of the slots of several schemas, each with two events of
\* which the one of energy 0.8 is ranked
NamedSlots ==
    {<<"dow_hour", <<"Monday", 8>>>>,
     <<"dow_hour", <<"Monday", 9>>>>,
     <<"dow_hour_platform", <<"Monday", 8, "Other">>>>,
     <<"dow_hour_platform", <<"Monday", 8, "ios">>>>,
     <<"dow_platform", <<"Monday", "ios">>>>,
     <<"hour_platform", <<8, "Other">>>>}
NamedHabitTracks == {<<PatternRow(a), PatternRow(b)>> : a \in {6, 7}, b \in 12..14}

NamedHabit(schema_slot, tracks) ==
    [pattern_type |-> "Habit",
     name |-> format_slot_name(schema_slot[1], schema_slot[2]),
     contributing_features |-> <<<<"energy", "High">>>>,
     tracks |-> tracks]

InitProcessNamed ==
    /\ pc = "process"
    /\ \E first \in NamedSlots, second \in NamedSlots, t1 \in NamedHabitTracks,
          t2 \in NamedHabitTracks :
          /\ first # second
          /\ detected_patterns = <<NamedHabit(first, t1), NamedHabit(second, t2)>>
    /\ num_songs \in SongCounts
    /\ top_tracks_map = <<>>
    /\ pattern_tracks = <<>>
    /\ tracks_with_popularity = <<>>
    /\ IdlePeriods
    /\ IdleFindPeriods
    /\ IdleSelect
    /\ IdleFindHabits
    /\ IdleSlotStats
    /\ IdleCluster
    /\ IdleFindPatterns
    /\ IdleSchemas
    /\ IdleMergeInput
    /\ IdleRobustGet
    /\ IdlePhase1
    /\ IdlePhase2
    /\ IdlePlaylists

SpecProcessNamed == InitProcessNamed /\ [][NextProcess]_vars

-----------------------------------------------------------------------------
(* compute_slot_feature_stats, src/pf_habits.py, for one feature column *)

\* Bound of the table: at most MaxStatRows events
MaxStatRows == 3

StatSlots == <<"s1", "s2">>
StatWeeks == <<1, 2>>
StatValues == <<NaN, Num(2), Num(8)>>

\* Kind k of event: slot, ISO week and energy (in tenths, or NaN)
StatRow(k) ==
    [slot |-> StatSlots[(k % 2) + 1], week |-> StatWeeks[((k \div 2) % 2) + 1],
     energy |-> StatValues[((k \div 4) % 3) + 1]]

StatTables ==
    {[i \in 1..Len(s) |-> StatRow(s[i])] :
        s \in UNION {KindSeqs(n, 0, 11) : n \in 0..MaxStatRows}}

\* The positions of the events of the table (of one slot) with energy defined
DefinedEvents(events) == {i \in 1..Len(events) : events[i].energy # NaN}
DefinedEventsOf(events, slot) == {i \in DefinedEvents(events) : events[i].slot = slot}

\* Sum of term[i] over the positions S
RECURSIVE IntSum(_, _)
IntSum(S, term) ==
    IF S = {} THEN 0
    ELSE LET x == CHOOSE y \in S : TRUE IN term[x] + IntSum(S \ {x}, term)

EnergySum(events, S) == IntSum(S, [i \in S |-> ValueOf(events[i].energy)])
EnergySquares(events, S) ==
    IntSum(S, [i \in S |-> ValueOf(events[i].energy) * ValueOf(events[i].energy)])

\* Series.mean(): NaN when no value is defined
MeanOver(events, S) ==
    IF S = {} THEN NaN ELSE Num(Frac(EnergySum(events, S), Cardinality(S)))

\* Series.std() squared, ddof = 1: NaN with fewer than two defined values
VarianceOver(events, S) ==
    LET n == Cardinality(S)
    IN IF n < 2 THEN NaN
       ELSE Num(Frac(n * EnergySquares(events, S)
                       - EnergySum(events, S) * EnergySum(events, S),
                     n * (n - 1)))

\* sigma squared: 0.0 when std is 0 (or None), else std, NaN included:
\* NaN is not in (0, None)
SigmaSquared(events) ==
    LET variance == VarianceOver(events, DefinedEvents(events))
    IN IF variance # NaN /\ ValueOf(variance)[1] = 0 THEN Num(<<0, 1>>) ELSE variance

\* The number diff / sqrt(var), kept as the pair; 0.0 is 0 / sqrt(1)
ZScore(diff, var) == Num([diff |-> diff, var |-> var])
ZeroZ == ZScore(<<0, 1>>, <<1, 1>>)

\* (slot_means[feat] - mu) / sigma if sigma else 0.0; NaN is truthy, and
\* arithmetic with NaN gives NaN
energy_z(events, slot) ==
    LET mu == MeanOver(events, DefinedEvents(events))
        sigma2 == SigmaSquared(events)
        slot_mean == MeanOver(events, DefinedEventsOf(events, slot))
    IN IF sigma2 # NaN /\ ValueOf(sigma2)[1] = 0 THEN ZeroZ
       ELSE IF sigma2 = NaN \/ mu = NaN \/ slot_mean = NaN THEN NaN
       ELSE ZScore(FracAdd(ValueOf(slot_mean),
                           <<-ValueOf(mu)[1], ValueOf(mu)[2]>>),
                   ValueOf(sigma2))

SlotsOf(events) == {events[i].slot : i \in 1..Len(events)}

compute_slot_feature_stats(events) ==
    [slot \in SlotsOf(events) |->
        [energy |-> MeanOver(events, DefinedEventsOf(events, slot)),
         energy_z |-> energy_z(events, slot),
         count |-> Cardinality({i \in 1..Len(events) : events[i].slot = slot}),
         weeks |-> Cardinality({events[i].week :
                                   i \in {j \in 1..Len(events) : events[j].slot = slot}})]]

InitSlotStats ==
    /\ pc = "stats"
    /\ slot_events \in StatTables
    /\ slot_stats = <<>>
    /\ IdlePeriods
    /\ IdleFindPeriods
    /\ IdleSelect
    /\ IdleFindHabits
    /\ IdleProcessing
    /\ IdleCluster
    /\ IdleFindPatterns
    /\ IdleSchemas
    /\ IdleMergeInput
    /\ IdleRobustGet
    /\ IdlePhase1
    /\ IdlePhase2
    /\ IdlePlaylists

ComputeSlotFeatureStats ==
    /\ pc = "stats"
    /\ slot_stats' = compute_slot_feature_stats(slot_events)
    /\ pc' = "stats_done"
    /\ UNCHANGED <<slot_events, nonSlotStatsVars>>

NextSlotStats == ComputeSlotFeatureStats

SpecSlotStats == InitSlotStats /\ [][NextSlotStats]_vars

-----------------------------------------------------------------------------
(* cluster_audio_profiles, src/pf_habits.py, as the Series it returns *)

\* The events of the table in index order: group by group, kind by kind
TotalEvents(groups) == GroupSize(groups[1]) + GroupSize(groups[2])

\* The events before the block of kind k of group g
EventsBefore(groups, g, k) ==
    (IF g = 2 THEN GroupSize(groups[1]) ELSE 0)
    + (IF k > 1 THEN groups[g].kinds[1] ELSE 0)
    + (IF k > 2 THEN groups[g].kinds[2] ELSE 0)

\* The kind of event i
KindAt(groups, i) ==
    LET block == CHOOSE b \in {1, 2} \X KindIds :
                    /\ EventsBefore(groups, b[1], b[2]) < i
                    /\ i <= EventsBefore(groups, b[1], b[2]) + groups[b[1]].kinds[b[2]]
    IN block[2]

\* features = [f for f in NUMERICAL_FEATURES_TO_CHECK if f in df.columns]
AudioFeaturesIn(columns) == columns \cap {HabitFeatures[i] : i \in 1..Len(HabitFeatures)}

\* The Series of labels, aligned with the index of the table
cluster_label_series(columns, groups, kmeans) ==
    [i \in 1..TotalEvents(groups) |->
        IF Cardinality(AudioFeaturesIn(columns)) < 2 THEN -1
        ELSE cluster_audio_profiles(groups, kmeans, KindAt(groups, i))]

\* fit_predict without a fixed seed: the labels may differ from call to call
fit_predict_unseeded(kmeans, call) ==
    [k \in DOMAIN kmeans |-> (kmeans[k] + call) % HABIT_AUDIO_CLUSTER_K]

\* KMeans(n_clusters = K, n_init = 10, random_state = 42).fit_predict: with
\* the seed fixed, every call on the same rows gives the same labels
fit_predict(kmeans, call) == kmeans

\* The calls of cluster_audio_profiles on one table
MaxClusterCalls == 2

ClusterCounts == {0, 7, 8}
ColumnSets == {{"valence", "energy"}, {"valence"}}
KMeansOutcomes == [KindIds -> 0..(HABIT_AUDIO_CLUSTER_K - 1)]

InitCluster ==
    /\ pc = "cluster"
    /\ \E k1 \in [KindIds -> ClusterCounts] :
          slot_groups = <<[slot |-> <<"Monday", "Morning">>, kinds |-> k1, weeks |-> 6],
                          [slot |-> <<"Sunday", "Evening">>, kinds |-> <<0, 1, 0>>, weeks |-> 6]>>
    /\ audio_columns \in ColumnSets
    /\ kmeans_labels \in {f \in KMeansOutcomes : f[2] = 0}
    /\ habit_baseline = <<>>
    /\ habits = <<>>
    /\ labels = <<>>
    /\ label_runs = <<>>
    /\ IdlePeriods
    /\ IdleFindPeriods
    /\ IdleSelect
    /\ IdleProcessing
    /\ IdleSlotStats
    /\ IdleFindPatterns
    /\ IdleSchemas
    /\ IdleMergeInput
    /\ IdleRobustGet
    /\ IdlePhase1
    /\ IdlePhase2
    /\ IdlePlaylists

ClusterAudioProfiles ==
    /\ Len(label_runs) < MaxClusterCalls
    /\ labels' = cluster_label_series(audio_columns, slot_groups,
                                      fit_predict(kmeans_labels, Len(label_runs) + 1))
    /\ label_runs' = Append(label_runs, labels')
    /\ UNCHANGED <<pc, audio_columns, nonClusterVars>>

NextCluster == ClusterAudioProfiles

SpecCluster == InitCluster /\ [][NextCluster]_vars

-----------------------------------------------------------------------------
(* calculate_baseline and find_patterns, src/pattern_finder.py *)

\* The configured features (of five categorical and ten numerical ones,
\* which are all treated alike)
CategoricalFeatures == {"country"}
NumericalFeatures == {"valence", "energy"}

\* What calculate_baseline reads of the table: whether it has a datetime
\* column, and per column present either the number of rows with each value
\* and with no value (categorical), or the number of defined values with
\* their mean and std in tenths (numerical)
CountryValues == <<"DE", "FR", "US">>
Rows(column) ==
    column.counts[1] + column.counts[2] + column.counts[3] + column.undefined

\* Series.mode(): the most frequent defined values, sorted; empty when no
\* value is defined
Mode(column) ==
    LET most == CHOOSE n \in {column.counts[i] : i \in 1..3} :
                    \A i \in 1..3 : column.counts[i] <= n
    IN IF most = 0 THEN <<>>
       ELSE SelectSeq(CountryValues,
                      LAMBDA v : \E i \in 1..3 : CountryValues[i] = v /\ column.counts[i] = most)

\* df[col].mean() and df[col].std(): NaN without a defined value, std NaN
\* with fewer than two
MeanAndStd(column) ==
    [mean |-> IF column.defined = 0 THEN NaN ELSE Num(column.mean),
     std |-> IF column.defined < 2 THEN NaN ELSE Num(column.std)]

\* The features calculate_baseline makes an entry for
BaselineKeys(table) ==
    {col \in CategoricalFeatures \cap DOMAIN table.columns : Rows(table.columns[col]) > 0}
        \cup (NumericalFeatures \cap DOMAIN table.columns)

\* calculate_baseline raises KeyError: sort_values("datetime") without the
\* column, mode()[0] on an empty mode
BaselineRaises(table) ==
    \/ ~table.has_datetime
    \/ \E col \in CategoricalFeatures \cap DOMAIN table.columns :
          Rows(table.columns[col]) > 0 /\ Mode(table.columns[col]) = <<>>

\* The baseline dict it returns otherwise
calculate_baseline(table) ==
    [col \in BaselineKeys(table) |->
        IF col \in CategoricalFeatures THEN Mode(table.columns[col])[1]
        ELSE MeanAndStd(table.columns[col])]

\* The numerical entries find_habits can compare with: a comparison with a
\* NaN mean or std is False, as if the feature had no entry
ComparableStats(base) ==
    [f \in {g \in DOMAIN base \cap NumericalFeatures :
                base[g].mean # NaN /\ base[g].std # NaN} |->
        [mean |-> ValueOf(base[f].mean), std |-> ValueOf(base[f].std)]]

\* find_periods: nothing without a baseline country; the windows of the
\* baseline country are not flagged
find_periods(tracks, anomalies, base) ==
    IF "country" \notin DOMAIN base THEN <<>>
    ELSE IF \E a \in anomalies : a[1] = "country" /\ a[2] = base["country"] THEN <<>>
    ELSE PeriodsEmittedFor(tracks, anomalies)

\* list.sort(key = score, reverse = True): stable, equal scores keep their
\* order
RECURSIVE InsertByScore(_, _)
InsertByScore(sorted, p) ==
    IF sorted = <<>> THEN <<p>>
    ELSE IF FracLess(sorted[1].score, p.score) THEN <<p>> \o sorted
    ELSE <<sorted[1]>> \o InsertByScore(Tail(sorted), p)

RECURSIVE SortByScore(_)
SortByScore(list) ==
    IF list = <<>> THEN <<>>
    ELSE InsertByScore(SortByScore(SubSeq(list, 1, Len(list) - 1)), list[Len(list)])

\* The scores of Periods are integers, those of Habits fractions
WithFractionScore(list) ==
    [i \in 1..Len(list) |->
        [f \in DOMAIN list[i] |->
            IF f = "score" THEN <<list[i].score, 1>> ELSE list[i][f]]]

\* The runs of find_patterns on one table
MaxRuns == 2

FP_CalculateBaseline ==
    /\ pc = "fp_start"
    /\ baseline_calls' = baseline_calls + 1
    /\ IF BaselineRaises(fp_df)
       THEN pc' = "fp_raised" /\ UNCHANGED fp_baseline
       ELSE pc' = "fp_baseline" /\ fp_baseline' = calculate_baseline(fp_df)
    /\ UNCHANGED <<fp_df, handed, all_patterns, returned, nonFindPatternsVars>>

\* find_periods parses the datetime column of the caller's table in place
FP_FindPeriods ==
    /\ pc = "fp_baseline"
    /\ all_patterns' = all_patterns \o
           WithFractionScore(find_periods(full_period_tracks, period_anomalies, fp_baseline))
    /\ handed' = Append(handed, <<"find_periods", fp_baseline>>)
    /\ fp_df' = [fp_df EXCEPT !.datetime_parsed = TRUE]
    /\ pc' = "fp_periods"
    /\ UNCHANGED <<fp_baseline, baseline_calls, returned, nonFindPatternsVars>>

FP_FindHabits ==
    /\ pc = "fp_periods"
    /\ all_patterns' = all_patterns \o
           find_habits(slot_groups, ComparableStats(fp_baseline), Len(slot_groups))
    /\ handed' = Append(handed, <<"find_habits", fp_baseline>>)
    /\ pc' = "fp_habits"
    /\ UNCHANGED <<fp_df, fp_baseline, baseline_calls, returned, nonFindPatternsVars>>

FP_SortAndReturn ==
    /\ pc = "fp_habits"
    /\ all_patterns' = SortByScore(all_patterns)
    /\ returned' = Append(returned, all_patterns')
    /\ pc' = "fp_returned"
    /\ UNCHANGED <<fp_df, fp_baseline, baseline_calls, handed, nonFindPatternsVars>>

\* The next call starts with fresh locals on the table the last call left
FP_CallAgain ==
    /\ pc = "fp_returned"
    /\ Len(returned) < MaxRuns
    /\ fp_baseline' = <<>>
    /\ baseline_calls' = 0
    /\ handed' = <<>>
    /\ all_patterns' = <<>>
    /\ pc' = "fp_start"
    /\ UNCHANGED <<fp_df, returned, nonFindPatternsVars>>

\* Tables for calculate_baseline alone
CountryColumns ==
    {[counts |-> c, undefined |-> u] : c \in [1..3 -> {0, 1, 2}], u \in {0, 1}}
NumericColumns ==
    {[defined |-> n, mean |-> 4, std |-> 2] : n \in {0, 1, 2}}

BaselineTables ==
    {[has_datetime |-> d, datetime_parsed |-> FALSE, columns |-> cols] :
        d \in BOOLEAN,
        cols \in UNION {[present -> CountryColumns \cup NumericColumns] :
                           present \in SUBSET {"country", "valence"}}}

InitBaseline ==
    /\ pc = "fp_start"
    /\ fp_df \in {t \in BaselineTables :
                     \A col \in DOMAIN t.columns :
                         (col = "country") <=> (t.columns[col] \in CountryColumns)}
    /\ fp_baseline = <<>>
    /\ baseline_calls = 0
    /\ handed = <<>>
    /\ all_patterns = <<>>
    /\ returned = <<>>
    /\ IdlePeriods
    /\ IdleFindPeriods
    /\ IdleSelect
    /\ IdleFindHabits
    /\ IdleProcessing
    /\ IdleSlotStats
    /\ IdleCluster
    /\ IdleSchemas
    /\ IdleMergeInput
    /\ IdleRobustGet
    /\ IdlePhase1
    /\ IdlePhase2
    /\ IdlePlaylists

NextBaseline == FP_CalculateBaseline

SpecBaseline == InitBaseline /\ [][NextBaseline]_vars

\* Tables for find_patterns: a merged period of country FR, two slots, and
\* the column summaries calculate_baseline reads
PipelinePeriods ==
    {MergedPeriodTracks(FP_WINDOW_SIZE, 30, 7, FALSE),
     MergedPeriodTracks(FP_WINDOW_SIZE, 29, 7, FALSE)}
PipelineFirstSlots == {<<600, 0, 0>>, <<30, 30, 0>>, <<0, 0, 60>>, <<5, 0, 0>>}
PipelineSecondSlots == {<<0, 0, 60>>, <<0, 0, 10>>}
PipelineColumns ==
    {[c \in present |->
         IF c = "country" THEN [counts |-> <<0, 150, 1000>>, undefined |-> 0]
         ELSE [defined |-> 1000, mean |-> m, std |-> 2]] :
        present \in {{"country", "valence", "energy"}, {"valence", "energy"},
                     {"country", "energy"}},
        m \in {4, 5}}

InitFindPatterns ==
    /\ pc = "fp_start"
    /\ fp_df \in {[has_datetime |-> TRUE, datetime_parsed |-> FALSE, columns |-> cols] :
                     cols \in PipelineColumns}
    /\ full_period_tracks \in PipelinePeriods
    /\ period_anomalies = {<<"country", "FR">>}
    /\ patterns = <<>>
    /\ \E k1 \in PipelineFirstSlots, k2 \in PipelineSecondSlots :
          slot_groups = <<[slot |-> <<"Monday", "Morning">>, kinds |-> k1, weeks |-> 6],
                          [slot |-> <<"Sunday", "Evening">>, kinds |-> k2, weeks |-> 8]>>
    /\ habit_baseline = <<>>
    /\ kmeans_labels \in {f \in KMeansOutcomes : f[1] = 0 /\ f[2] = 0 /\ f[3] \in {1, 2}}
    /\ habits = <<>>
    /\ audio_columns = {"valence", "energy"}
    /\ labels = <<>>
    /\ label_runs = <<>>
    /\ fp_baseline = <<>>
    /\ baseline_calls = 0
    /\ handed = <<>>
    /\ all_patterns = <<>>
    /\ returned = <<>>
    /\ IdlePeriods
    /\ IdleSelect
    /\ IdleProcessing
    /\ IdleSlotStats
    /\ IdleSchemas
    /\ IdleMergeInput
    /\ IdleRobustGet
    /\ IdlePhase1
    /\ IdlePhase2
    /\ IdlePlaylists

NextFindPatterns ==
    \/ FP_CalculateBaseline
    \/ FP_FindPeriods
    \/ FP_FindHabits
    \/ FP_SortAndReturn
    \/ FP_CallAgain

SpecFindPatterns == InitFindPatterns /\ [][NextFindPatterns]_vars

\* Runs of the pipeline and calls of the clustering on one table
NextRuns ==
    \/ NextFindPatterns
    \/ ClusterAudioProfiles

SpecRuns == InitFindPatterns /\ [][NextRuns]_vars

-----------------------------------------------------------------------------
(* The slot schemas, src/pf_habits.py: slot_key_builders, and
   compute_slot_feature_stats on what a builder returns *)

HABIT_TOP_PLATFORMS == 1

\* builders, in the order they are registered
SchemaNames == <<"dow_hour", "dow_hour_platform", "season_hour", "dow_platform",
                 "month_hour", "country_hour", "dow_country", "hour_platform">>

RowsOfTable(rows) == {rows[i] : i \in 1..Len(rows)}

\* out["platform"].value_counts().head(HABIT_TOP_PLATFORMS).index: the most
\* frequent platforms; which of several equally frequent ones is not fixed
\* here beyond being the same on every call
PlatformCount(rows, v) == Cardinality({i \in 1..Len(rows) : rows[i].platform = v})
TopPlatforms(rows) ==
    LET values == {rows[i].platform : i \in 1..Len(rows)}
        k == IF Cardinality(values) < HABIT_TOP_PLATFORMS THEN Cardinality(values)
             ELSE HABIT_TOP_PLATFORMS
    IN CHOOSE top \in SUBSET values :
          /\ Cardinality(top) = k
          /\ \A a \in top, b \in values \ top :
                PlatformCount(rows, a) >= PlatformCount(rows, b)

\* out["platform"].where(out["platform"].isin(top), other="Other")
PlatformLim(rows, r) == IF r.platform \in TopPlatforms(rows) THEN r.platform ELSE "Other"

\* valid = out["country"].notna() & (out["country"] != "ZZ")
ValidCountry(r) == r.country # None /\ r.country # "ZZ"

\* out.get("season", <empty Series>): the column, or no value
SeasonOf(columns, r) == IF "season" \in columns THEN r.season ELSE None
MonthOf(columns, r) == IF "month" \in columns THEN r.month ELSE 0

WithSlot(r, key) ==
    [f \in DOMAIN r \cup {"slot"} |-> IF f = "slot" THEN key ELSE r[f]]

\* The rows a builder keeps: all of them, or those with a valid country
KeptRows(schema, table) ==
    IF schema \in {"country_hour", "dow_country"} /\ "country" \in table.columns
    THEN SelectSeq(table.rows, ValidCountry)
    ELSE table.rows

\* Whether the table a builder returns has a _slot column
HasSlotColumn(schema, columns) ==
    CASE schema \in {"dow_platform", "hour_platform"} ->
            "platform_group" \in columns \/ "platform" \in columns
      [] schema \in {"country_hour", "dow_country"} -> "country" \in columns
      [] OTHER -> TRUE

PlatformComponent(table, r) ==
    IF "platform_group" \in table.columns THEN r.platform_group
    ELSE PlatformLim(table.rows, r)

\* The value of _slot a builder gives a row
SlotKey(schema, table, r) ==
    CASE schema = "dow_hour" -> <<r.day_of_week, r.hour>>
      [] schema = "dow_hour_platform" ->
            IF "platform_group" \in table.columns \/ "platform" \in table.columns
            THEN <<r.day_of_week, r.hour, PlatformComponent(table, r)>>
            ELSE <<r.day_of_week, r.hour>>
      [] schema = "season_hour" -> <<SeasonOf(table.columns, r), r.hour>>
      [] schema = "dow_platform" -> <<r.day_of_week, PlatformComponent(table, r)>>
      [] schema = "month_hour" -> <<MonthOf(table.columns, r), r.hour>>
      [] schema = "country_hour" -> <<r.country, r.hour>>
      [] schema = "dow_country" -> <<r.day_of_week, r.country>>
      [] schema = "hour_platform" -> <<r.hour, PlatformComponent(table, r)>>

\* builders[schema](d): a copy of the table, filtered and keyed; d itself is
\* not written to
build_slots(schema, table) ==
    LET kept == KeptRows(schema, table)
    IN [has_slot |-> HasSlotColumn(schema, table.columns),
        rows |-> IF HasSlotColumn(schema, table.columns)
                 THEN [i \in 1..Len(kept) |-> WithSlot(kept[i], SlotKey(schema, table, kept[i]))]
                 ELSE kept]

\* df["_week"] = df.index.isocalendar().week: the week number, without the
\* ISO year
WithWeek(rows) ==
    [i \in 1..Len(rows) |->
        [f \in DOMAIN rows[i] \cup {"week"} |->
            IF f = "week" THEN rows[i].iso_week ELSE rows[i][f]]]

\* compute_slot_feature_stats(df, "_slot") for the table a builder returned
schema_slot_stats(rows) == compute_slot_feature_stats(WithWeek(rows))

\* The mean and the std (squared) the z-scores of a call are computed with
OverallUsed(rows) ==
    [mean |-> MeanOver(rows, DefinedEvents(rows)), sigma2 |-> SigmaSquared(rows)]

\* Tables of up to MaxSchemaRows events
MaxSchemaRows == 3

SchemaRow(country, hour, platform, year, week, energy) ==
    [day_of_week |-> "Monday", hour |-> hour, season |-> "Winter", month |-> 1,
     country |-> country, platform |-> platform,
     platform_group |-> CASE platform = "ios" -> "Mobile"
                          [] platform = "web" -> "Desktop"
                          [] OTHER -> "TV",
     iso_year |-> year, iso_week |-> week, energy |-> Num(energy)]

SchemaCountries == <<"US", "ZZ", None>>
SchemaPlatforms == <<"ios", "web", "tv">>
SchemaWeeks == <<<<2023, 1>>, <<2024, 1>>, <<2024, 2>>>>
SchemaEnergies == <<2, 8>>
SchemaHours == <<8, 9>>

\* Kind k of event, with the country and the energy varying
CountryRow(k) ==
    SchemaRow(SchemaCountries[(k % 3) + 1], 8, "ios", 2024, 1,
              SchemaEnergies[((k \div 3) % 2) + 1])
\* with the platform varying
PlatformRow(k) == SchemaRow("US", 8, SchemaPlatforms[(k % 3) + 1], 2024, 1, 2)
\* with the ISO year and week and the hour varying
WeekRow(k) ==
    SchemaRow("US", SchemaHours[((k \div 3) % 2) + 1], "ios",
              SchemaWeeks[(k % 3) + 1][1], SchemaWeeks[(k % 3) + 1][2], 2)

SchemaRowLists ==
    UNION {{[i \in 1..n |-> CountryRow(s[i])] : s \in KindSeqs(n, 0, 5)}
           \cup {[i \in 1..n |-> PlatformRow(s[i])] : s \in KindSeqs(n, 0, 2)}
           \cup {[i \in 1..n |-> WeekRow(s[i])] : s \in KindSeqs(n, 0, 5)} :
           n \in 1..MaxSchemaRows}

SchemaColumnSets ==
    {{"country", "platform", "platform_group", "season", "month"},
     {"country", "platform", "season", "month"},
     {}}

InitSchemas ==
    /\ pc = "schema_build"
    /\ \E rows \in SchemaRowLists, columns \in SchemaColumnSets :
          schema_table = [columns |-> columns, rows |-> rows]
    /\ schema_i = 0
    /\ slotted = <<>>
    /\ schema_stats = <<>>
    /\ IdlePeriods
    /\ IdleFindPeriods
    /\ IdleSelect
    /\ IdleFindHabits
    /\ IdleProcessing
    /\ IdleSlotStats
    /\ IdleCluster
    /\ IdleFindPatterns
    /\ IdleMergeInput
    /\ IdleRobustGet
    /\ IdlePhase1
    /\ IdlePhase2
    /\ IdlePlaylists

\* The next schema's builder is called on the table
BuildSlotKeys ==
    /\ pc = "schema_build"
    /\ slotted' = Append(slotted, build_slots(SchemaNames[schema_i + 1], schema_table))
    /\ pc' = "schema_stats"
    /\ UNCHANGED <<schema_table, schema_i, schema_stats, nonSchemasVars>>

\* The statistics of the table the builder returned; a table without a
\* _slot column has no slots
ComputeSchemaStats ==
    /\ pc = "schema_stats"
    /\ schema_stats' = Append(schema_stats,
                              IF slotted[schema_i + 1].has_slot
                              THEN schema_slot_stats(slotted[schema_i + 1].rows)
                              ELSE <<>>)
    /\ schema_i' = schema_i + 1
    /\ pc' = IF schema_i + 1 = Len(SchemaNames) THEN "schemas_done" ELSE "schema_build"
    /\ UNCHANGED <<schema_table, slotted, nonSchemasVars>>

NextSchemas == BuildSlotKeys \/ ComputeSchemaStats

SpecSchemas == InitSchemas /\ [][NextSchemas]_vars

-----------------------------------------------------------------------------
(* robust_get, src/audio-features.py *)

OUTAGE_RETRY_SECONDS == 30
OUTAGE_EXIT_AFTER_SECONDS == 1800

\* Time is counted in ticks, TicksPerSecond to the second
TicksPerSecond == 2
RetryTicks == OUTAGE_RETRY_SECONDS * TicksPerSecond
ExitAfterTicks == OUTAGE_EXIT_AFTER_SECONDS * TicksPerSecond

\* What a requests.get can do, and how long it can take (in ticks)
GetEvents == {"response", "ConnectionError", "Timeout", "OtherException"}
NetworkFailures == {"ConnectionError", "Timeout"}
StatusCodes == {200, 404, 429, 500}
GetDurations == {0, 1, 20}

\* Mutant: gives up only after more than the limit
GivesUpLater(elapsed) == elapsed > ExitAfterTicks

\* if elapsed >= OUTAGE_EXIT_AFTER_SECONDS: raise
GivesUp(elapsed) == elapsed >= ExitAfterTicks

\* wait = OUTAGE_RETRY_SECONDS; if wait > wait_left: wait = max(1, int(wait_left))
RetryWait(elapsed) ==
    LET wait_left == ExitAfterTicks - elapsed
    IN IF RetryTicks > wait_left
       THEN Max(1, wait_left \div TicksPerSecond) * TicksPerSecond
       ELSE RetryTicks

InitRobustGet ==
    /\ pc = "get"
    /\ rg_elapsed = 0
    /\ rg_event = ""
    /\ rg_wait = 0
    /\ rg_outcome = ""
    /\ rg_status = 0
    /\ IdlePeriods
    /\ IdleFindPeriods
    /\ IdleSelect
    /\ IdleFindHabits
    /\ IdleProcessing
    /\ IdleSlotStats
    /\ IdleCluster
    /\ IdleFindPatterns
    /\ IdleSchemas
    /\ IdleMergeInput
    /\ IdlePhase1
    /\ IdlePhase2
    /\ IdlePlaylists

\* One pass of the loop up to the sleep: the GET, and on a network failure
\* the reading of the clock and the choice between raising and waiting
RG_Get ==
    /\ pc = "get"
    /\ \E event \in GetEvents, took \in GetDurations, status \in StatusCodes :
          /\ rg_event' = event
          /\ rg_elapsed' = rg_elapsed + took
          /\ CASE event = "response" ->
                    /\ rg_outcome' = "returned"
                    /\ rg_status' = status
                    /\ pc' = "rg_done"
                    /\ UNCHANGED rg_wait
               [] event = "OtherException" ->
                    /\ rg_outcome' = "OtherException"
                    /\ pc' = "rg_done"
                    /\ UNCHANGED <<rg_wait, rg_status>>
               [] event \in NetworkFailures ->
                    IF GivesUp(rg_elapsed + took)
                    THEN /\ rg_outcome' = "NetworkOutageExceededError"
                         /\ pc' = "rg_done"
                         /\ UNCHANGED <<rg_wait, rg_status>>
                    ELSE /\ rg_wait' = RetryWait(rg_elapsed + took)
                         /\ pc' = "sleep"
                         /\ UNCHANGED <<rg_outcome, rg_status>>
    /\ UNCHANGED nonRobustGetVars

\* time.sleep(wait)
RG_Sleep ==
    /\ pc = "sleep"
    /\ rg_elapsed' = rg_elapsed + rg_wait
    /\ pc' = "get"
    /\ UNCHANGED <<rg_event, rg_wait, rg_outcome, rg_status, nonRobustGetVars>>

NextRobustGet == RG_Get \/ RG_Sleep

\* Every requests.get comes back and every sleep ends
SpecRobustGet == InitRobustGet /\ [][NextRobustGet]_vars /\ WF_vars(NextRobustGet)

-----------------------------------------------------------------------------
(* Phase 1 of src/audio-features.py: the track-info fetch loop *)

MaxBatches == 3
MaxRateLimits == 2

\* checkpoint_stride_batches = max(1, ceil(total_batches * 0.05)), or 1
CheckpointStride(n) ==
    IF n > 0 THEN Max(1, (n * 5 + 99) \div 100) ELSE 1

\* How one pass through the body of the loop can go: a response of status
\* 200 with or without a content list, a 429 with a usable Retry-After
\* header, a 429 without one, another status, or an exception out of
\* robust_get
BatchOutcomes == {"200", "200 without content", "429", "429 without Retry-After",
                  "other status", "NetworkOutageExceededError", "OtherException"}

InitPhase1 ==
    /\ pc = "phase1"
    /\ total_batches \in 0..MaxBatches
    /\ batch_idx = 0
    /\ recco_track_infos = <<>>
    /\ last_checkpoint_at_batch = 0
    /\ p1_outcome = ""
    /\ p1_waits = 0
    /\ exit_status = 0
    /\ error_csv = <<>>
    /\ IdlePeriods
    /\ IdleFindPeriods
    /\ IdleSelect
    /\ IdleFindHabits
    /\ IdleProcessing
    /\ IdleSlotStats
    /\ IdleCluster
    /\ IdleFindPatterns
    /\ IdleSchemas
    /\ IdleMergeInput
    /\ IdleRobustGet
    /\ IdlePhase2
    /\ IdlePlaylists

\* One pass through the body of the while loop.  Everything raised inside
\* the inner try, NetworkOutageExceededError included, is caught by its
\* `except Exception`, which counts the batch as done.  The checkpoint after
\* it stands outside the inner try: a failed write goes to the outer handler.
P1_FetchBatch ==
    /\ pc = "phase1"
    /\ batch_idx < total_batches
    /\ \E outcome \in BatchOutcomes, written \in BOOLEAN :
          /\ p1_outcome' = outcome
          /\ IF outcome = "429"
             THEN /\ p1_waits < MaxRateLimits
                  /\ p1_waits' = p1_waits + 1
                  /\ UNCHANGED <<pc, batch_idx, recco_track_infos,
                                 last_checkpoint_at_batch, exit_status, error_csv>>
             ELSE LET infos == IF outcome = "200"
                               THEN Append(recco_track_infos, batch_idx)
                               ELSE recco_track_infos
                      progressed_batches == batch_idx + 1
                      due == progressed_batches - last_checkpoint_at_batch
                                >= CheckpointStride(total_batches)
                  IN /\ recco_track_infos' = infos
                     /\ batch_idx' = progressed_batches
                     /\ UNCHANGED p1_waits
                     /\ IF due /\ infos # <<>> /\ ~written
                        THEN /\ pc' = "exit"
                             /\ exit_status' = 1
                             /\ error_csv' = infos
                             /\ UNCHANGED last_checkpoint_at_batch
                        ELSE /\ written
                             /\ last_checkpoint_at_batch' =
                                    IF due THEN progressed_batches
                                    ELSE last_checkpoint_at_batch
                             /\ UNCHANGED <<pc, exit_status, error_csv>>
    /\ UNCHANGED <<total_batches, nonPhase1Vars>>

\* The loop ends and the script goes on to save the track infos
P1_Finish ==
    /\ pc = "phase1"
    /\ batch_idx >= total_batches
    /\ pc' = "phase1_done"
    /\ UNCHANGED <<phase1Vars, nonPhase1Vars>>

NextPhase1 == P1_FetchBatch \/ P1_Finish

SpecPhase1 == InitPhase1 /\ [][NextPhase1]_vars

-----------------------------------------------------------------------------
(* Phase 2 of src/audio-features.py: the audio-feature fetch loop *)

MAX_WORKERS == 2
MaxTracks == 3

\* What the future of one track can give: the features (response.json()),
\* the 404 record, the 429 record, None for a track without id, or an
\* exception raised in fetch_audio_feature
FutureResults == {"features", "404", "429", "None", "raises"}

\* batch = tracks_for_features[track_idx : track_idx + MAX_WORKERS]
BatchTracks(idx) ==
    [k \in 1 .. (IF total - idx < MAX_WORKERS THEN total - idx ELSE MAX_WORKERS)
        |-> idx + k]

\* The for loop over the futures from position k on: results are taken in
\* the order of submission; features are appended (with the checkpoint
\* after each), a 404 is skipped, and a 429, a None or an exception ends
\* the loop
RECURSIVE process_futures(_, _, _, _, _)
process_futures(tracks, results, k, feats, last_checkpoint) ==
    IF k > Len(tracks)
    THEN [features |-> feats, last_checkpoint |-> last_checkpoint, stopped_by |-> "none"]
    ELSE CASE results[k] = "features" ->
                LET appended == Append(feats, tracks[k])
                    due == Len(appended) - last_checkpoint >= CheckpointStride(total)
                IN process_futures(tracks, results, k + 1, appended,
                                   IF due THEN Len(appended) ELSE last_checkpoint)
           [] results[k] = "404" ->
                process_futures(tracks, results, k + 1, feats, last_checkpoint)
           [] OTHER ->
                [features |-> feats, last_checkpoint |-> last_checkpoint,
                 stopped_by |-> results[k]]

InitPhase2 ==
    /\ pc = "phase2"
    /\ total \in 0..MaxTracks
    /\ track_idx = 0
    /\ features = <<>>
    /\ last_checkpoint_at_features = 0
    /\ batch_results = <<>>
    /\ p2_waits = 0
    /\ p2_error_csv = <<>>
    /\ IdlePeriods
    /\ IdleFindPeriods
    /\ IdleSelect
    /\ IdleFindHabits
    /\ IdleProcessing
    /\ IdleSlotStats
    /\ IdleCluster
    /\ IdleFindPatterns
    /\ IdleSchemas
    /\ IdleMergeInput
    /\ IdleRobustGet
    /\ IdlePhase1
    /\ IdlePlaylists

\* One pass through the body of the while loop: the batch is submitted, its
\* results are processed in order, and track_idx advances unless a 429 was
\* met; an exception or a None result goes to the outer handler
P2_FetchBatch ==
    /\ pc = "phase2"
    /\ track_idx < total
    /\ LET batch == BatchTracks(track_idx)
       IN \E results \in [1..Len(batch) -> FutureResults] :
             LET done == process_futures(batch, results, 1, features,
                                         last_checkpoint_at_features)
             IN /\ batch_results' = results
                /\ features' = done.features
                /\ last_checkpoint_at_features' = done.last_checkpoint
                /\ CASE done.stopped_by = "429" ->
                          /\ p2_waits < MaxRateLimits
                          /\ p2_waits' = p2_waits + 1
                          /\ UNCHANGED <<pc, track_idx, p2_error_csv>>
                     [] done.stopped_by = "none" ->
                          /\ track_idx' = track_idx + Len(batch)
                          /\ UNCHANGED <<pc, p2_waits, p2_error_csv>>
                     [] OTHER ->
                          /\ pc' = "exit"
                          /\ p2_error_csv' = done.features
                          /\ UNCHANGED <<track_idx, p2_waits>>
    /\ UNCHANGED <<total, nonPhase2Vars>>

\* The loop ends and the script goes on to save the features
P2_Finish ==
    /\ pc = "phase2"
    /\ track_idx >= total
    /\ pc' = "phase2_done"
    /\ UNCHANGED <<phase2Vars, nonPhase2Vars>>

NextPhase2 == P2_FetchBatch \/ P2_Finish

SpecPhase2 == InitPhase2 /\ [][NextPhase2]_vars

-----------------------------------------------------------------------------
(* generate_playlists, src/generate_context_playlists.py, and
   enforce_artist_diversity, src/diversity.py *)

\* int(x) of Python for the quotient a / b with b > 0: towards zero
IntOfQuotient(a, b) == IF a >= 0 THEN a \div b ELSE -((-a) \div b)

\* max(1, int(0.15 * num_songs)) unless a limit is given
get_max_per_artist(n, limit) ==
    IF limit # NaN THEN ValueOf(limit) ELSE Max(1, IntOfQuotient(15 * n, 100))

\* The pairs of a list in their order, each at its first occurrence only
RECURSIVE get_unique_tracks(_)
get_unique_tracks(tracks) ==
    IF tracks = <<>> THEN <<>>
    ELSE LET before == get_unique_tracks(SubSeq(tracks, 1, Len(tracks) - 1))
             t == tracks[Len(tracks)]
         IN IF \E i \in DOMAIN before : before[i] = t
            THEN before ELSE Append(before, t)

\* artist_count.get(artist, 0) over the tracks kept so far
ArtistCount(kept, artist) ==
    Cardinality({ i \in DOMAIN kept : kept[i][2] = artist })

\* if artist_count.get(artist, 0) < max_per_artist
KeepsTrack(kept, artist, limit) == ArtistCount(kept, artist) < limit

RECURSIVE enforce_artist_diversity(_, _)
enforce_artist_diversity(tracks, limit) ==
    IF tracks = <<>> THEN <<>>
    ELSE LET kept == enforce_artist_diversity(SubSeq(tracks, 1, Len(tracks) - 1), limit)
             t == tracks[Len(tracks)]
         IN IF KeepsTrack(kept, t[2], limit) THEN Append(kept, t) ELSE kept

\* tracks[:n] of Python: the first n, or all but the last -n for n < 0
SliceTo(tracks, n) ==
    LET stop == IF n >= 0 THEN (IF n < Len(tracks) THEN n ELSE Len(tracks))
                ELSE Max(0, Len(tracks) + n)
    IN SubSeq(tracks, 1, stop)

MaxPlaylistTracks == 4
PlaylistTrackNames == {"t1", "t2"}
PlaylistArtists == {"a1", "a2"}
NumSongsChoices == {-1, 0, 1, 2, 3, 14}
MaxPerArtistChoices == {NaN, Num(0), Num(1), Num(2)}

\* Every list of up to MaxPlaylistTracks (track, artist) pairs
PlaylistTrackLists ==
    UNION { [1..n -> PlaylistTrackNames \X PlaylistArtists] : n \in 0..MaxPlaylistTracks }

InitPlaylists ==
    /\ pc = "generate"
    /\ sorted_tracks \in PlaylistTrackLists
    /\ num_songs \in NumSongsChoices
    /\ max_per_artist \in MaxPerArtistChoices
    /\ unique_tracks = <<>>
    /\ diverse_tracks = <<>>
    /\ generated_playlists = <<>>
    /\ IdlePeriods
    /\ IdleFindPeriods
    /\ IdleSelect
    /\ IdleFindHabits
    /\ pattern_tracks = <<>>
    /\ tracks_with_popularity = <<>>
    /\ detected_patterns = <<>>
    /\ top_tracks_map = <<>>
    /\ IdleSlotStats
    /\ IdleCluster
    /\ IdleFindPatterns
    /\ IdleSchemas
    /\ IdleMergeInput
    /\ IdleRobustGet
    /\ IdlePhase1
    /\ IdlePhase2

\* The body of the loop for one playlist name, from the sorted pairs on
GeneratePlaylist ==
    /\ pc = "generate"
    /\ LET limit == get_max_per_artist(num_songs, max_per_artist)
           uniq == get_unique_tracks(sorted_tracks)
           diverse == enforce_artist_diversity(uniq, limit)
       IN /\ unique_tracks' = uniq
          /\ diverse_tracks' = diverse
          /\ generated_playlists' = SliceTo(diverse, num_songs)
    /\ pc' = "generated"
    /\ UNCHANGED <<sorted_tracks, max_per_artist, nonPlaylistsVars>>

NextPlaylists == GeneratePlaylist

SpecPlaylists == InitPlaylists /\ [][NextPlaylists]_vars

-----------------------------------------------------------------------------
(* Properties of period detection *)

AllCountries == PeriodCountries \cup DetectCountries

\* The windows detect_categorical_anomalies has to scan, by their first day
ScanPositions ==
    IF df = <<>> THEN {}
    ELSE {t \in df[1].t..df[Len(df)].t :
             /\ t + (WINDOW_SIZE_DAYS - 1) <= df[Len(df)].t
             /\ (t - df[1].t) % STEP_SIZE_DAYS = 0}

EventsIn(t) == {i \in 1..Len(df) : df[i].t >= t /\ df[i].t <= t + (WINDOW_SIZE_DAYS - 1)}

CountryEventsIn(t, v) == {i \in EventsIn(t) : df[i].country = v}

\* v is a non-baseline, known country with a share of at least 0.6 in window t
IsAnomalousIn(t, v) ==
    /\ v # baseline_country
    /\ v # "ZZ"
    /\ 10 * Cardinality(CountryEventsIn(t, v)) >= 6 * Cardinality(EventsIn(t))

FlaggedPositions ==
    {t \in ScanPositions : EventsIn(t) # {} /\ \E v \in AllCountries : IsAnomalousIn(t, v)}

\* The place of window t among the recorded windows
RankOf(t) == Cardinality({q \in FlaggedPositions : q <= t})

\* C1: in ascending start_date order, the next window is merged into the
\* current period iff its anomaly set equals the current period's and
\* next.start_date - current.end_date <= STEP_SIZE_DAYS; a merge keeps the
\* period's start and extends its end to the maximum end; otherwise the
\* current period is closed and the next window starts a new one.
C1_MergeRule ==
    /\ [](pc = "merging" =>
            \A i \in 1..(Len(detected_windows) - 1) :
                detected_windows[i].start_date <= detected_windows[i + 1].start_date)
    /\ [][(pc = "merging" /\ merge_i <= Len(detected_windows)) =>
            LET cur == detected_windows[current_period]
                nxt == detected_windows[merge_i]
            IN IF /\ nxt.anomalies = cur.anomalies
                  /\ nxt.start_date - cur.end_date <= 1
               THEN /\ merged_periods' = merged_periods
                    /\ current_period' = current_period
                    /\ detected_windows'[current_period'] =
                          [start_date |-> cur.start_date,
                           end_date |-> Max(cur.end_date, nxt.end_date),
                           anomalies |-> cur.anomalies]
               ELSE /\ merged_periods' = Append(merged_periods, cur)
                    /\ detected_windows'[current_period'] = nxt]_vars

\* C1 witness: the merge is over, some windows were merged into one period
\* and some window started a new period.
C1_Witness ==
    /\ pc = "merged"
    /\ Len(merged_periods) >= 2
    /\ Len(merged_periods) < Len(detected_windows)
    /\ \E k \in 1..(Len(merged_periods) - 1) :
          merged_periods[k].anomalies = merged_periods[k + 1].anomalies

IsSingleBlock(v) ==
    LET block == {i \in 1..Len(df) : df[i].country = v}
    IN /\ v # baseline_country
       /\ v # "ZZ"
       /\ block # {}
       /\ \A i \in 1..Len(df) : df[i].country \in {v, baseline_country}
       /\ \A i, j \in block : \A k \in i..j : k \in block
       /\ \E i, j \in block : df[j].t - df[i].t >= WINDOW_SIZE_DAYS - 1

BlockFirstDate(v) == df[CHOOSE i \in 1..Len(df) :
                          df[i].country = v /\ \A j \in 1..(i - 1) : df[j].country # v].t

BlockLastDate(v) == df[CHOOSE i \in 1..Len(df) :
                         df[i].country = v /\ \A j \in (i + 1)..Len(df) : df[j].country # v].t

\* C6: one contiguous block of a non-baseline country v among baseline
\* events yields exactly one Period, with contributing_features
\* {country: v}, starting on the date of the block's first event and ending
\* on the date of its last event.
C6_BlockPeriodMatchesBlock ==
    \A v \in AllCountries :
        (pc = "done" /\ IsSingleBlock(v)) =>
            /\ Len(periods) = 1
            /\ periods[1].contributing_features = {<<"country", v>>}
            /\ periods[1].start_date = BlockFirstDate(v)
            /\ periods[1].end_date = BlockLastDate(v)

-----------------------------------------------------------------------------
(* Properties of find_periods *)

UniquePairs(tracks) == {tracks[i].track_artist : i \in 1..Len(tracks)}

\* C2: a merged period is emitted as a Period iff its contributing events
\* hold at least MIN_TRACKS_FOR_PLAYLIST different (track, artist) pairs and
\* it lasts at least PERIOD_MIN_DAYS days; an emitted Period has non-empty
\* contributing_features.
C2_EmittedIffMinimums ==
    pc = "period_done" =>
        LET contributing ==
                {i \in 1..Len(full_period_tracks) :
                    full_period_tracks[i].country = "FR"}
            pairs == {full_period_tracks[i].track_artist : i \in contributing}
            days == (full_period_tracks[Len(full_period_tracks)].datetime
                        - full_period_tracks[1].datetime) + 1
        IN /\ (patterns # <<>>) <=>
                 (Cardinality(pairs) >= MIN_TRACKS_FOR_PLAYLIST /\ days >= PERIOD_MIN_DAYS)
           /\ \A k \in 1..Len(patterns) : patterns[k].contributing_features # {}

-----------------------------------------------------------------------------
(* Properties of select_habit_slots *)

\* The features of a row that deviate: z defined and |z| >= 0.8 for an
\* audio feature, |z| >= 0.5 for a behavioral one
DeviatingFeatures(row) ==
    {f \in DOMAIN row.z :
        /\ row.z[f] # NaN
        /\ \/ f \in NUMERICAL_FEATURES_TO_CHECK /\ (row.z[f][1] >= 8 \/ row.z[f][1] <= -8)
           \/ f \in HABIT_BEHAVIORAL_FEATURES /\ (row.z[f][1] >= 5 \/ row.z[f][1] <= -5)}

MeetsMinimums(row) ==
    /\ row.count >= 100
    /\ row.weeks >= 6
    /\ Cardinality(DeviatingFeatures(row)) >= 3

SelectedSlots == {selected[k] : k \in 1..Len(selected)}

\* C3: every slot select_habit_slots returns has count >= 100, weeks >= 6
\* and at least 3 deviating features (inclusive thresholds, by kind of
\* feature); a slot at exactly these minimums is eligible (returned while
\* the table has no more eligible rows than the cap), and a slot with fewer
\* deviating features is never returned.
C3_ReturnedSlotsMeetMinimums ==
    pc = "selected" =>
        /\ \A s \in SelectedSlots :
              \E i \in 1..Len(stats) : stats[i].slot = s /\ MeetsMinimums(stats[i])
        /\ \A i \in 1..Len(stats) :
              (Len(stats) <= 3 /\ MeetsMinimums(stats[i])) => stats[i].slot \in SelectedSlots
        /\ \A i \in 1..Len(stats) :
              Cardinality(DeviatingFeatures(stats[i])) < 3 =>
                  stats[i].slot \notin SelectedSlots

\* C3 witness: a slot with exactly 100 events, 6 weeks and exactly three
\* deviating features, one of them behavioral with |z| = 0.5 and one audio
\* with z = -0.8, was returned.
C3_Witness ==
    /\ pc = "selected"
    /\ \E i \in 1..Len(stats) :
          /\ stats[i].slot \in SelectedSlots
          /\ stats[i].count = 100
          /\ stats[i].weeks = 6
          /\ Cardinality(DeviatingFeatures(stats[i])) = 3
          /\ \E f \in HABIT_BEHAVIORAL_FEATURES \cap DOMAIN stats[i].z : stats[i].z[f] = <<5>>
          /\ \E f \in NUMERICAL_FEATURES_TO_CHECK \cap DOMAIN stats[i].z : stats[i].z[f] = <<-8>>

-----------------------------------------------------------------------------
(* Properties of find_habits *)

GroupOf(time_slot) == CHOOSE i \in 1..Len(slot_groups) : slot_groups[i].slot = time_slot

\* The events of group g whose cluster label is c
EventsLabelled(g, c) ==
    LET n(k) == IF cluster_audio_profiles(slot_groups, kmeans_labels, k) = c
                THEN g.kinds[k] ELSE 0
    IN n(1) + n(2) + n(3)

\* The events of the most frequent cluster label other than -1
DominantClusterEvents(g) ==
    LET counts == {EventsLabelled(g, c) : c \in 0..(HABIT_AUDIO_CLUSTER_K - 1)}
    IN CHOOSE n \in counts : \A m \in counts : m <= n

\* C4: every Habit comes from a slot whose dominant cluster other than -1
\* covers at least HABIT_MIN_CLUSTER_SHARE of the slot's events and whose
\* distinct-week count is at least HABIT_MIN_CLUSTER_WEEKS.
C4_HabitsAreCohesive ==
    pc = "habits_done" =>
        \A h \in 1..Len(habits) :
            LET g == slot_groups[GroupOf(habits[h].time_slot)]
            IN /\ 10 * DominantClusterEvents(g) >= HABIT_MIN_CLUSTER_SHARE_X10 * GroupSize(g)
               /\ g.weeks >= HABIT_MIN_CLUSTER_WEEKS

-----------------------------------------------------------------------------
(* Properties of _calculate_popularity *)

\* The sum of the defined attention spans of uri among the first n events,
\* in tenths
RECURSIVE AttentionSum(_, _)
AttentionSum(uri, n) ==
    IF n = 0 THEN 0
    ELSE AttentionSum(uri, n - 1)
         + (IF /\ pattern_tracks[n].spotify_track_uri = uri
               /\ pattern_tracks[n].attention_span # NaN
            THEN pattern_tracks[n].attention_span[1] ELSE 0)

AttentionCount(uri) ==
    Cardinality({i \in 1..Len(pattern_tracks) :
                    /\ pattern_tracks[i].spotify_track_uri = uri
                    /\ pattern_tracks[i].attention_span # NaN})

Plays(uri) ==
    Cardinality({i \in 1..Len(pattern_tracks) : pattern_tracks[i].spotify_track_uri = uri})

Skips(uri) ==
    Cardinality({i \in 1..Len(pattern_tracks) :
                    /\ pattern_tracks[i].spotify_track_uri = uri
                    /\ pattern_tracks[i].skipped = 1})

MostPlays ==
    CHOOSE n \in {Plays(pattern_tracks[i].spotify_track_uri) : i \in 1..Len(pattern_tracks)} :
        \A i \in 1..Len(pattern_tracks) : Plays(pattern_tracks[i].spotify_track_uri) <= n

\* score = 0.5 * plays / most + 0.3 * (1 - skips / plays) + 0.2 * a / b,
\* cleared of fractions
ScoreIs(score, uri, a, b) ==
    100 * MostPlays * Plays(uri) * b * score[1]
        = score[2] * (50 * Plays(uri) * Plays(uri) * b
                      + 30 * (Plays(uri) - Skips(uri)) * MostPlays * b
                      + 20 * a * MostPlays * Plays(uri))

\* Every track with a defined attention span is scored by the weighted sum
\* with its own mean attention span; the most-played track has play
\* component 1
ScoreFollowsFormula ==
    pc = "popularity_done" =>
        \A i \in 1..Len(tracks_with_popularity) :
            LET uri == tracks_with_popularity[i].spotify_track_uri
                score == tracks_with_popularity[i].contextual_popularity_score
            IN AttentionCount(uri) > 0 =>
                /\ ScoreIs(score, uri, AttentionSum(uri, Len(pattern_tracks)),
                           10 * AttentionCount(uri))
                /\ Plays(uri) = MostPlays =>
                      100 * Plays(uri) * AttentionCount(uri) * score[1]
                          = score[2] * (50 * Plays(uri) * AttentionCount(uri)
                                        + 30 * (Plays(uri) - Skips(uri)) * AttentionCount(uri)
                                        + 2 * AttentionSum(uri, Len(pattern_tracks)) * Plays(uri))

\* C7 as stated: the score is w_count * plays / max plays + w_skip *
\* (1 - skips / plays) + w_attention * mean attention span with weights
\* 0.5 / 0.3 / 0.2, and for plays [10,5,1], skips [1,0,0], attention spans
\* [0.9,0.5,undefined] the first track scores 0.77.
C7_ScenarioScores077 ==
    /\ ScoreFollowsFormula
    /\ (pc = "popularity_done" /\ pattern_tracks = ScenarioCTracks) =>
          100 * tracks_with_popularity[1].contextual_popularity_score[1]
              = 77 * tracks_with_popularity[1].contextual_popularity_score[2]

\* C7 amended: the same weighted sum, and for plays [10,5,1], skips [1,0,0],
\* attention spans [0.9,0.5,undefined] the first track scores
\* 0.5 * 1.0 + 0.3 * 0.9 + 0.2 * 0.9 = 0.95.
C7_ScenarioScores095 ==
    /\ ScoreFollowsFormula
    /\ (pc = "popularity_done" /\ pattern_tracks = ScenarioCTracks) =>
          100 * tracks_with_popularity[1].contextual_popularity_score[1]
              = 95 * tracks_with_popularity[1].contextual_popularity_score[2]

C7_Witness ==
    /\ pc = "popularity_done"
    /\ pattern_tracks = ScenarioCTracks
    /\ Plays("u1") = MostPlays
    /\ Skips("u1") = 1

\* The uris of the pattern with at least one defined attention span
UrisWithAttention ==
    {pattern_tracks[i].spotify_track_uri : i \in 1..Len(pattern_tracks)}
        \cap {uri \in {"u1", "u2", "u3"} : AttentionCount(uri) > 0}

\* The mean over the uris with a defined attention span of their mean
\* attention span, every uri counted once
MeanOfTrackMeans ==
    FracMul(FracSum(UrisWithAttention,
                    [uri \in UrisWithAttention |->
                        <<AttentionSum(uri, Len(pattern_tracks)), 10 * AttentionCount(uri)>>]),
            <<1, Cardinality(UrisWithAttention)>>)

\* C8: a track with no defined attention span gets as attention component
\* the mean of the other tracks' mean attention spans, each track counted
\* once; a track with a defined attention span keeps its own mean; when no
\* event of the pattern has a defined attention span the component is 0.
C8_AttentionBackfill ==
    pc = "popularity_done" =>
        \A i \in 1..Len(tracks_with_popularity) :
            LET uri == tracks_with_popularity[i].spotify_track_uri
                score == tracks_with_popularity[i].contextual_popularity_score
            IN IF AttentionCount(uri) > 0
               THEN ScoreIs(score, uri, AttentionSum(uri, Len(pattern_tracks)),
                            10 * AttentionCount(uri))
               ELSE IF UrisWithAttention = {}
               THEN ScoreIs(score, uri, 0, 1)
               ELSE ScoreIs(score, uri, MeanOfTrackMeans[1], MeanOfTrackMeans[2])

C8_Witness ==
    /\ pc = "popularity_done"
    /\ AttentionCount("u3") = 0
    /\ Plays("u3") > 0
    /\ AttentionCount("u1") > AttentionCount("u2")
    /\ AttentionCount("u2") > 0
    /\ AttentionSum("u1", Len(pattern_tracks)) * AttentionCount("u2")
          # AttentionSum("u2", Len(pattern_tracks)) * AttentionCount("u1")

-----------------------------------------------------------------------------
(* Properties of process_patterns *)

PatternNamed(name) ==
    detected_patterns[CHOOSE i \in 1..Len(detected_patterns) :
                          /\ detected_patterns[i].name = name
                          /\ \A j \in (i + 1)..Len(detected_patterns) :
                                detected_patterns[j].name # name]

PairOfRow(r) == <<r.track, r.artist>>
PairsOf(rows) == {PairOfRow(rows[i]) : i \in 1..Len(rows)}
ScoreOfRow(r) == r.contextual_popularity_score

\* The scored events the ranking of pattern p chooses from
Candidates(p) == tracks_to_rank(p)

BeyondPercentile(v, rows, feature, direction) ==
    /\ v # NaN
    /\ quantile(rows, feature, IF direction = "High" THEN 3 ELSE 1) # NaN
    /\ LET q == quantile(rows, feature, IF direction = "High" THEN 3 ELSE 1)[1]
       IN IF direction = "High" THEN v[1] * q[2] > q[1] ELSE v[1] * q[2] < q[1]

\* C10: the ranked list of a Habit holds only events strictly beyond the
\* 75th (High) or 25th (Low) percentile of the first contributing feature;
\* later contributing features exclude nothing, and the events of a Period
\* are not filtered.
C10_HabitQuartileFilter ==
    pc = "processed" =>
        \A name \in DOMAIN top_tracks_map :
            LET top == top_tracks_map[name]
                p == PatternNamed(name)
                feature == p.contributing_features[1][1]
                direction == p.contributing_features[1][2]
            IN IF p.pattern_type = "Habit"
               THEN /\ \A i \in 1..Len(top) :
                          BeyondPercentile(top[i][feature], p.tracks, feature, direction)
                    /\ Len(top) < num_songs =>
                          \A t \in 1..Len(p.tracks) :
                              BeyondPercentile(p.tracks[t][feature], p.tracks, feature, direction)
                                  => PairOfRow(p.tracks[t]) \in PairsOf(top)
               ELSE Len(top) < num_songs =>
                        \A t \in 1..Len(p.tracks) : PairOfRow(p.tracks[t]) \in PairsOf(top)

\* A Habit with two contributing features whose list holds an event that
\* is not beyond the percentile of the second, and leaves out an event with
\* a defined value of the first
C10_Witness ==
    /\ pc = "processed"
    /\ \E name \in DOMAIN top_tracks_map :
          LET top == top_tracks_map[name]
              p == PatternNamed(name)
              first == p.contributing_features[1]
          IN /\ p.pattern_type = "Habit"
             /\ Len(p.contributing_features) = 2
             /\ \E i \in 1..Len(top) :
                   /\ top[i][p.contributing_features[2][1]] # NaN
                   /\ ~BeyondPercentile(top[i][p.contributing_features[2][1]], p.tracks,
                                        p.contributing_features[2][1],
                                        p.contributing_features[2][2])
             /\ \E t \in 1..Len(p.tracks) :
                   /\ p.tracks[t][first[1]] # NaN
                   /\ ~BeyondPercentile(p.tracks[t][first[1]], p.tracks, first[1], first[2])
                   /\ PairOfRow(p.tracks[t]) \notin PairsOf(top)

-----------------------------------------------------------------------------
(* Properties of compute_slot_feature_stats *)

\* The defined energy values of the table
DefinedEnergies == {slot_events[i].energy[1] :
                       i \in {j \in 1..Len(slot_events) : slot_events[j].energy # NaN}}

\* The overall standard deviation is 0 (a constant column) or undefined
\* (fewer than two defined values)
StdIsZeroOrUndefined ==
    \/ Cardinality({j \in 1..Len(slot_events) : slot_events[j].energy # NaN}) < 2
    \/ Cardinality(DefinedEnergies) = 1

\* C11: whenever the feature's overall standard deviation is 0 or
\* undefined, its z-score is exactly 0 for every slot, never undefined.
C11_ZeroWhenStdDegenerate ==
    (pc = "stats_done" /\ StdIsZeroOrUndefined) =>
        \A slot \in DOMAIN slot_stats :
            /\ slot_stats[slot].energy_z # NaN
            /\ slot_stats[slot].energy_z[1].diff[1] = 0

-----------------------------------------------------------------------------
(* Properties of cluster_audio_profiles *)

\* Event i of the table has every audio feature defined
HasAllAudioFeatures(i) ==
    \A f \in {"valence", "energy"} : EventKinds[KindAt(slot_groups, i)][f] # NaN

\* The number of events with every audio feature defined
RowsWithAllAudioFeatures ==
    Cardinality({i \in 1..TotalEvents(slot_groups) : HasAllAudioFeatures(i)})

\* C13: one label per event; all labels are -1 when fewer than 3 * K rows
\* have every audio feature defined or fewer than two audio feature columns
\* are present; otherwise a row is labelled -1 iff one of its audio
\* features is undefined and every other row has a label in 0..K-1.
C13_OneLabelPerEvent ==
    label_runs # <<>> =>
        /\ Len(labels) = TotalEvents(slot_groups)
        /\ IF \/ RowsWithAllAudioFeatures < 3 * HABIT_AUDIO_CLUSTER_K
              \/ Cardinality(audio_columns) < 2
           THEN \A i \in 1..Len(labels) : labels[i] = -1
           ELSE \A i \in 1..Len(labels) :
                   IF HasAllAudioFeatures(i)
                   THEN labels[i] \in 0..(HABIT_AUDIO_CLUSTER_K - 1)
                   ELSE labels[i] = -1

\* Exactly 3 * K usable rows, one row without energy: clustered, with both
\* -1 and proper labels in the Series
C13_Witness ==
    /\ label_runs # <<>>
    /\ RowsWithAllAudioFeatures = 3 * HABIT_AUDIO_CLUSTER_K
    /\ \E i \in 1..Len(labels) : labels[i] = -1
    /\ \E i \in 1..Len(labels) : labels[i] = HABIT_AUDIO_CLUSTER_K - 1

-----------------------------------------------------------------------------
(* Properties of calculate_baseline and find_patterns *)

\* What the detectors found, in detection order
PeriodsFound ==
    WithFractionScore(find_periods(full_period_tracks, period_anomalies, fp_baseline))
HabitsFound ==
    find_habits(slot_groups, ComparableStats(fp_baseline), Len(slot_groups))

\* C18: find_patterns computes the baseline exactly once before any
\* detector, hands that baseline to find_periods and to find_habits, and
\* returns every Period followed by every Habit, each group in detection
\* order
C18_BaselineOnceThenConcatenation ==
    pc = "fp_returned" =>
        /\ baseline_calls = 1
        /\ handed = <<<<"find_periods", fp_baseline>>, <<"find_habits", fp_baseline>>>>
        /\ returned[Len(returned)] = PeriodsFound \o HabitsFound

\* The baseline is computed once and handed to both detectors
C18_BaselineOnceAndShared ==
    pc \in {"fp_habits", "fp_returned"} =>
        /\ baseline_calls = 1
        /\ handed = <<<<"find_periods", fp_baseline>>, <<"find_habits", fp_baseline>>>>

\* A returned list in which a Habit precedes a Period
C18_HabitBeforePeriod ==
    /\ pc = "fp_returned"
    /\ \E i, j \in 1..Len(all_patterns) :
          /\ i < j
          /\ "time_slot" \in DOMAIN all_patterns[i]
          /\ "start_date" \in DOMAIN all_patterns[j]

Degenerate(table, col) ==
    \/ col \notin DOMAIN table.columns
    \/ col \in CategoricalFeatures /\ Mode(table.columns[col]) = <<>>
    \/ col \in NumericalFeatures /\ table.columns[col].defined = 0

\* C17: on a table with a datetime column calculate_baseline does not
\* raise; the baseline has no entry for a feature whose column is absent,
\* without rows or all undefined, and the mode or the {mean, std} of every
\* other configured feature
C17_NoFailurePath ==
    (pc # "fp_start" /\ fp_df.has_datetime) =>
        /\ pc # "fp_raised"
        /\ \A col \in CategoricalFeatures \cup NumericalFeatures :
              IF Degenerate(fp_df, col) THEN col \notin DOMAIN fp_baseline
              ELSE /\ col \in DOMAIN fp_baseline
                   /\ fp_baseline[col] = calculate_baseline(fp_df)[col]

\* The call raised on a country column whose rows are all undefined
C17_RaisedOnUndefinedColumn ==
    /\ pc = "fp_raised"
    /\ fp_df.has_datetime
    /\ "country" \in DOMAIN fp_df.columns
    /\ fp_df.columns["country"].undefined > 0

\* The call returned an entry of NaN for a numerical column without a
\* defined value
C17_EntryForUndefinedColumn ==
    /\ pc = "fp_baseline"
    /\ "valence" \in DOMAIN fp_df.columns
    /\ fp_df.columns["valence"].defined = 0
    /\ "valence" \in DOMAIN fp_baseline
    /\ fp_baseline["valence"] = [mean |-> NaN, std |-> NaN]

-----------------------------------------------------------------------------
(* Properties of select_habit_slots on tables of several rows *)

\* The row of a slot
StatsRowOf(slot) == stats[CHOOSE k \in 1..Len(stats) : stats[k].slot = slot]

\* (deviating-feature count, count) of a is strictly greater than that of b
StrictlyGreaterRank(a, b) ==
    \/ deviating_feature_count(a) > deviating_feature_count(b)
    \/ /\ deviating_feature_count(a) = deviating_feature_count(b)
       /\ a.count > b.count

EligibleSlots == {stats[k].slot : k \in {j \in 1..Len(stats) : IsEligible(stats[j])}}

\* C14: select_habit_slots returns at most HABIT_MAX_SLOTS_PER_SCHEMA
\* eligible slots in non-increasing order of (deviating-feature count,
\* count); no eligible slot left out ranks strictly above a returned one,
\* and all eligible slots are returned when they are no more than the cap
C14_TopSlotsInRankOrder ==
    pc = "selected" =>
        /\ Len(selected) <= HABIT_MAX_SLOTS_PER_SCHEMA
        /\ SelectedSlots \subseteq EligibleSlots
        /\ \A i, j \in 1..Len(selected) :
              i < j => /\ selected[i] # selected[j]
                       /\ ~StrictlyGreaterRank(StatsRowOf(selected[j]), StatsRowOf(selected[i]))
        /\ \A out \in EligibleSlots \ SelectedSlots : \A in \in SelectedSlots :
              ~StrictlyGreaterRank(StatsRowOf(out), StatsRowOf(in))
        /\ Cardinality(EligibleSlots) <= HABIT_MAX_SLOTS_PER_SCHEMA
              => SelectedSlots = EligibleSlots

\* More eligible slots than the cap, the best of them last in the table, and
\* returned slots that differ in count only
C14_Witness ==
    /\ pc = "selected"
    /\ Cardinality(EligibleSlots) > HABIT_MAX_SLOTS_PER_SCHEMA
    /\ Len(selected) = HABIT_MAX_SLOTS_PER_SCHEMA
    /\ selected[1] = Len(stats)
    /\ deviating_feature_count(StatsRowOf(selected[2])) = deviating_feature_count(StatsRowOf(selected[3]))
    /\ StatsRowOf(selected[2]).count > StatsRowOf(selected[3]).count

-----------------------------------------------------------------------------
(* Properties of the tracks of a Period *)

\* The events of the table from start_date to end_date with the anomaly
\* value
EventsWithAnomalyValue(p) ==
    SelectSeq(df, LAMBDA e : /\ p.start_date <= e.t
                             /\ e.t <= p.end_date
                             /\ e.country = FirstAnomaly(p.contributing_features)[2])

\* C15: the tracks of every Period are the events from start_date to
\* end_date with the anomaly value, one row per (track, artist) pair, the
\* earliest kept
C15_TracksAreUniqueContributors ==
    pc = "done" =>
        \A i \in 1..Len(periods) :
            periods[i].tracks = DropDuplicatePairs(EventsWithAnomalyValue(periods[i]))

\* The tracks of every Period are the events in range with the anomaly value
C15_TracksAreContributors ==
    pc = "done" =>
        \A i \in 1..Len(periods) :
            periods[i].tracks = EventsWithAnomalyValue(periods[i])

\* A Period in whose tracks a (track, artist) pair occurs twice
C15_PairTwice ==
    /\ pc = "done"
    /\ \E i \in 1..Len(periods) : \E a, b \in 1..Len(periods[i].tracks) :
          /\ a < b
          /\ periods[i].tracks[a].track_artist = periods[i].tracks[b].track_artist

-----------------------------------------------------------------------------
(* Properties of the scan on degenerate tables *)

\* No scanned window holds a known non-baseline country with a share of at
\* least 0.6
NoQualifyingWindow ==
    \A k \in 1..Len(ScannedWindows(df)) : \A v \in AllCountries :
        \/ EventsIn(ScannedWindows(df)[k].current_date) = {}
        \/ ~IsAnomalousIn(ScannedWindows(df)[k].current_date, v)

\* C16: on an empty table, and on a table without a qualifying window,
\* detect_categorical_anomalies returns [], merge_consecutive_windows takes
\* its early return with [] and no Period is built
C16_NothingFoundIsEmptyList ==
    (df = <<>> \/ NoQualifyingWindow) =>
        /\ pc # "start" => detected_windows = <<>>
        /\ pc # "merging"
        /\ pc \in {"merged", "done"} => merged_periods = <<>>
        /\ pc = "done" => periods = <<>>

\* The empty table went through detection, merge and Period creation
C16_Witness ==
    /\ pc = "done"
    /\ df = <<>>
    /\ detected_windows = <<>>
    /\ periods = <<>>

\* C19: the scanned windows start at min_time, advance by STEP_SIZE_DAYS,
\* each spans WINDOW_SIZE_DAYS - 1 days, and every event of the table lies in
\* one of them, also when the range is shorter than one window
C19_WindowsCoverRange ==
    (pc = "detected" /\ df # <<>>) =>
        LET scanned == ScannedWindows(df)
        IN /\ \A k \in 1..Len(scanned) :
                 /\ scanned[k].current_date = df[1].t + (k - 1) * STEP_SIZE_DAYS
                 /\ scanned[k].window_end_date =
                        scanned[k].current_date + (WINDOW_SIZE_DAYS - 1)
           /\ \A i \in 1..Len(df) : \E k \in 1..Len(scanned) :
                 /\ scanned[k].current_date <= df[i].t
                 /\ df[i].t <= scanned[k].window_end_date

\* The scanned windows are spaced and sized as stated, and cover every
\* event when the range spans at least one window
C19_FullWindowsOnly ==
    (pc = "detected" /\ df # <<>>) =>
        LET scanned == ScannedWindows(df)
        IN /\ \A k \in 1..Len(scanned) :
                 /\ scanned[k].current_date = df[1].t + (k - 1) * STEP_SIZE_DAYS
                 /\ scanned[k].window_end_date =
                        scanned[k].current_date + (WINDOW_SIZE_DAYS - 1)
           /\ df[Len(df)].t - df[1].t < WINDOW_SIZE_DAYS - 1 => scanned = <<>>

\* A table of non-baseline events over less than a window: nothing scanned,
\* nothing detected
C19_ShortRangeUnscanned ==
    /\ pc = "detected"
    /\ df # <<>>
    /\ df[Len(df)].t - df[1].t < WINDOW_SIZE_DAYS - 1
    /\ \A i \in 1..Len(df) : df[i].country = "FR"
    /\ baseline_country = "US"
    /\ ScannedWindows(df) = <<>>
    /\ detected_windows = <<>>

-----------------------------------------------------------------------------
(* Order of filtering and scoring in process_patterns *)

\* The events of Habit p beyond the percentile of its first contributing
\* feature
RestrictedEvents(p) == habit_tracks_to_show(p, p.tracks)

\* C20: the scores in the ranked list of a Habit are computed over the
\* events left by the quartile restriction: play counts, max_plays, skip
\* rates and the attention backfill are taken over those events only
C20_ScoredAfterRestriction ==
    pc = "processed" =>
        \A name \in DOMAIN top_tracks_map :
            LET top == top_tracks_map[name]
                p == PatternNamed(name)
            IN p.pattern_type = "Habit" =>
                  \A i \in 1..Len(top) :
                      ScoreOfRow(top[i]) =
                          contextual_popularity_score(RestrictedEvents(p),
                                                      top[i].spotify_track_uri)

\* The scores in every ranked list are those over all events of the pattern
C20_ScoredOverAllEvents ==
    pc = "processed" =>
        \A name \in DOMAIN top_tracks_map :
            LET top == top_tracks_map[name]
                p == PatternNamed(name)
            IN \A i \in 1..Len(top) :
                  ScoreOfRow(top[i]) =
                      contextual_popularity_score(p.tracks, top[i].spotify_track_uri)

\* A Habit whose list holds a track scored lower than its restricted events
\* alone would score it
C20_ScoreOverAllDiffers ==
    /\ pc = "processed"
    /\ \E name \in DOMAIN top_tracks_map :
          LET top == top_tracks_map[name]
              p == PatternNamed(name)
          IN /\ p.pattern_type = "Habit"
             /\ \E i \in 1..Len(top) :
                   FracLess(ScoreOfRow(top[i]),
                            contextual_popularity_score(RestrictedEvents(p),
                                                        top[i].spotify_track_uri))

-----------------------------------------------------------------------------
(* Properties of the slot schemas *)

SchemaIndex(name) == CHOOSE k \in 1..Len(SchemaNames) : SchemaNames[k] = name

\* The row as it was handed to the builder
WithoutSlot(r) == [f \in DOMAIN r \ {"slot"} |-> r[f]]

\* C21: the mean and the std the z-scores of every schema are computed
\* with are those of the full event table, country_hour and dow_country
\* included
C21_ZScoresAgainstFullTable ==
    pc = "schemas_done" =>
        \A k \in 1..Len(SchemaNames) :
            slotted[k].has_slot =>
                OverallUsed(slotted[k].rows) = OverallUsed(schema_table.rows)

\* The schemas that filter nothing use the mean and std of the full table
C21_UnfilteredSchemasAgree ==
    pc = "schemas_done" =>
        \A k \in 1..Len(SchemaNames) :
            (slotted[k].has_slot /\ SchemaNames[k] \notin {"country_hour", "dow_country"}) =>
                OverallUsed(slotted[k].rows) = OverallUsed(schema_table.rows)

\* country_hour computed its z-scores against a mean other than the full
\* table's
C21_FilteredMeanDiffers ==
    /\ pc = "schemas_done"
    /\ slotted[SchemaIndex("country_hour")].has_slot
    /\ slotted[SchemaIndex("country_hour")].rows # <<>>
    /\ OverallUsed(slotted[SchemaIndex("country_hour")].rows).mean
          # OverallUsed(schema_table.rows).mean

\* The rows of schema k with slot key `slot`
RowsOfSlot(k, slot) ==
    {i \in 1..Len(slotted[k].rows) : slotted[k].rows[i].slot = slot}

\* C22: count is the number of events with the slot key, weeks the number
\* of distinct ISO weeks with an event of the slot, the same week number of
\* two years counting twice
C22_CountAndDistinctWeeks ==
    pc = "schemas_done" =>
        \A k \in 1..Len(SchemaNames) :
            slotted[k].has_slot =>
                \A slot \in DOMAIN schema_stats[k] :
                    /\ schema_stats[k][slot].count = Cardinality(RowsOfSlot(k, slot))
                    /\ schema_stats[k][slot].weeks =
                          Cardinality({<<slotted[k].rows[i].iso_year, slotted[k].rows[i].iso_week>> :
                                          i \in RowsOfSlot(k, slot)})

\* count is right, and weeks is the number of distinct week numbers
C22_DistinctWeekNumbers ==
    pc = "schemas_done" =>
        \A k \in 1..Len(SchemaNames) :
            slotted[k].has_slot =>
                \A slot \in DOMAIN schema_stats[k] :
                    /\ schema_stats[k][slot].count = Cardinality(RowsOfSlot(k, slot))
                    /\ schema_stats[k][slot].weeks =
                          Cardinality({slotted[k].rows[i].iso_week : i \in RowsOfSlot(k, slot)})

\* A slot with events in week 1 of two years and weeks = 1
C22_TwoYearsOneWeek ==
    /\ pc = "schemas_done"
    /\ \E slot \in DOMAIN schema_stats[1] :
          /\ schema_stats[1][slot].weeks = 1
          /\ \E i, j \in RowsOfSlot(1, slot) :
                /\ slotted[1].rows[i].iso_year # slotted[1].rows[j].iso_year
                /\ slotted[1].rows[i].iso_week = slotted[1].rows[j].iso_week

\* The events schema k has to key: all, or for country_hour those with a
\* known country
EventsToKey(k) ==
    IF SchemaNames[k] = "country_hour"
    THEN SelectSeq(schema_table.rows, LAMBDA r : r.country # None /\ r.country # "ZZ")
    ELSE schema_table.rows

\* C23: a builder leaves its input table unchanged and gives every event
\* exactly one slot key; only country_hour leaves out the events of unknown
\* or undefined country
C23_EveryEventInEverySchema ==
    /\ [][schema_table' = schema_table]_vars
    /\ [](\A k \in 1..Len(slotted) :
            /\ slotted[k].has_slot
            /\ Len(slotted[k].rows) = Len(EventsToKey(k))
            /\ \A i \in 1..Len(slotted[k].rows) :
                  WithoutSlot(slotted[k].rows[i]) = EventsToKey(k)[i])

\* The input is unchanged, and the schemas without a country or platform
\* component key every event
C23_PlainSchemasKeyEveryEvent ==
    /\ [][schema_table' = schema_table]_vars
    /\ [](\A k \in 1..Len(slotted) :
            SchemaNames[k] \in {"dow_hour", "dow_hour_platform", "season_hour", "month_hour"} =>
                /\ slotted[k].has_slot
                /\ Len(slotted[k].rows) = Len(schema_table.rows)
                /\ \A i \in 1..Len(slotted[k].rows) :
                      WithoutSlot(slotted[k].rows[i]) = schema_table.rows[i])

\* dow_country left out an event of unknown country
C23_DowCountryDropsUnknown ==
    /\ pc = "schemas_done"
    /\ slotted[SchemaIndex("dow_country")].has_slot
    /\ \E i \in 1..Len(schema_table.rows) : schema_table.rows[i].country = "ZZ"
    /\ Len(slotted[SchemaIndex("dow_country")].rows) < Len(schema_table.rows)

\* The platform components of the slot keys of schema k
PlatformComponents(k) ==
    {slotted[k].rows[i].slot[Len(slotted[k].rows[i].slot)] : i \in 1..Len(slotted[k].rows)}

PlatformSchemas == {"dow_hour_platform", "dow_platform", "hour_platform"}

HasPlatformColumn ==
    "platform_group" \in schema_table.columns \/ "platform" \in schema_table.columns

\* C24: in the schemas with a platform component that component is one
\* of the HABIT_TOP_PLATFORMS most frequent platforms or "Other", so at
\* most HABIT_TOP_PLATFORMS + 1 different components occur
C24_PlatformsCapped ==
    (pc = "schemas_done" /\ HasPlatformColumn) =>
        \A k \in 1..Len(SchemaNames) :
            SchemaNames[k] \in PlatformSchemas =>
                /\ PlatformComponents(k) \subseteq TopPlatforms(schema_table.rows) \cup {"Other"}
                /\ Cardinality(PlatformComponents(k)) <= HABIT_TOP_PLATFORMS + 1

\* The cap holds on tables that carry platform but not platform_group
C24_CappedWithoutGroupColumn ==
    (pc = "schemas_done" /\ HasPlatformColumn /\ "platform_group" \notin schema_table.columns) =>
        \A k \in 1..Len(SchemaNames) :
            SchemaNames[k] \in PlatformSchemas =>
                /\ PlatformComponents(k) \subseteq TopPlatforms(schema_table.rows) \cup {"Other"}
                /\ Cardinality(PlatformComponents(k)) <= HABIT_TOP_PLATFORMS + 1

\* Three different platform components in the keys of one schema
C24_ThreeComponents ==
    /\ pc = "schemas_done"
    /\ "platform_group" \in schema_table.columns
    /\ Cardinality(PlatformComponents(SchemaIndex("hour_platform"))) = 3

-----------------------------------------------------------------------------
(* The entries of the map process_patterns returns *)

\* The ranked lists process_patterns can compute for pattern p
RankedLists(p) ==
    {sort_dedupe_head(tracks_to_rank(p), order, num_songs) :
        order \in SortOrders(tracks_to_rank(p))}

\* C25: process_patterns returns one ranked list for every input pattern:
\* n entries for n patterns, each pattern's own list under its name
C25_OneListPerPattern ==
    pc = "processed" =>
        /\ Cardinality(DOMAIN top_tracks_map) = Len(detected_patterns)
        /\ \A i \in 1..Len(detected_patterns) :
              /\ detected_patterns[i].name \in DOMAIN top_tracks_map
              /\ top_tracks_map[detected_patterns[i].name] \in RankedLists(detected_patterns[i])

\* One entry for every different name, holding the list of the last
\* pattern of that name
C25_OneListPerName ==
    pc = "processed" =>
        /\ DOMAIN top_tracks_map = {detected_patterns[i].name : i \in 1..Len(detected_patterns)}
        /\ \A name \in DOMAIN top_tracks_map :
              top_tracks_map[name] \in RankedLists(PatternNamed(name))

\* Two Habits of one name and different rankings: one entry, the second
\* Habit's list
C25_ListOverwritten ==
    /\ pc = "processed"
    /\ Len(detected_patterns) = 2
    /\ detected_patterns[1].name = detected_patterns[2].name
    /\ Cardinality(DOMAIN top_tracks_map) = 1
    /\ top_tracks_map[detected_patterns[1].name] \notin RankedLists(detected_patterns[1])

-----------------------------------------------------------------------------
(* Properties of merge_consecutive_windows on any list *)

\* C26: the merged periods are in non-decreasing start_date order, each
\* with start_date <= end_date; every window handed in lies within a period
\* of its anomaly set; there are no more periods than windows; and no two
\* consecutive periods have the same anomaly set and a gap of at most
\* STEP_SIZE_DAYS
C26_MergedPeriodsWellFormed ==
    pc = "merged" =>
        /\ \A k \in 1..(Len(merged_periods) - 1) :
              /\ merged_periods[k].start_date <= merged_periods[k + 1].start_date
              /\ ~(/\ merged_periods[k].anomalies = merged_periods[k + 1].anomalies
                    /\ merged_periods[k + 1].start_date - merged_periods[k].end_date
                          <= STEP_SIZE_DAYS)
        /\ \A k \in 1..Len(merged_periods) :
              merged_periods[k].start_date <= merged_periods[k].end_date
        /\ \A i \in 1..Len(flagged_windows) : \E k \in 1..Len(merged_periods) :
              /\ merged_periods[k].anomalies = flagged_windows[i].anomalies
              /\ merged_periods[k].start_date <= flagged_windows[i].start_date
              /\ flagged_windows[i].end_date <= merged_periods[k].end_date
        /\ Len(merged_periods) <= Len(flagged_windows)

\* An unsorted list of three windows, two of them merged and one of the
\* other country kept apart
C26_Witness ==
    /\ pc = "merged"
    /\ Len(flagged_windows) = 3
    /\ flagged_windows[1].start_date > flagged_windows[2].start_date
    /\ Len(merged_periods) = 2
    /\ merged_periods[1].anomalies # merged_periods[2].anomalies
    /\ \E k \in 1..2 : \A i \in 1..3 :
          <<flagged_windows[i].start_date, flagged_windows[i].end_date>>
              # <<merged_periods[k].start_date, merged_periods[k].end_date>>

-----------------------------------------------------------------------------
(* Properties of robust_get *)

\* C29: robust_get retries after every ConnectionError or Timeout, after a
\* sleep of 30 s (or of the time left to the limit, at least 1 s); it returns
\* the first response whatever its status, raises
\* NetworkOutageExceededError on the first failure seen 30 minutes or more
\* after the start, lets any other exception through, and always ends
C29_RetriesUntilResponseOrDeadline ==
    /\ [][pc = "get" =>
            CASE rg_event' = "response" ->
                    pc' = "rg_done" /\ rg_outcome' = "returned"
              [] rg_event' = "OtherException" ->
                    pc' = "rg_done" /\ rg_outcome' = "OtherException"
              [] OTHER ->
                    IF rg_elapsed' >= OUTAGE_EXIT_AFTER_SECONDS * TicksPerSecond
                    THEN pc' = "rg_done" /\ rg_outcome' = "NetworkOutageExceededError"
                    ELSE /\ pc' = "sleep"
                         /\ rg_wait' >= TicksPerSecond
                         /\ \/ rg_wait' = OUTAGE_RETRY_SECONDS * TicksPerSecond
                            \/ /\ rg_wait' < OUTAGE_RETRY_SECONDS * TicksPerSecond
                               /\ rg_elapsed' + OUTAGE_RETRY_SECONDS * TicksPerSecond
                                     > OUTAGE_EXIT_AFTER_SECONDS * TicksPerSecond
                               /\ \/ rg_wait' = TicksPerSecond
                                  \/ rg_elapsed' + rg_wait'
                                        <= OUTAGE_EXIT_AFTER_SECONDS * TicksPerSecond]_vars
    /\ [][pc = "sleep" => pc' = "get" /\ rg_elapsed' = rg_elapsed + rg_wait]_vars
    /\ <>(pc = "rg_done")

\* The call gave up exactly at the limit, after a shortened sleep
C29_Witness ==
    /\ pc = "rg_done"
    /\ rg_outcome = "NetworkOutageExceededError"
    /\ rg_elapsed = OUTAGE_EXIT_AFTER_SECONDS * TicksPerSecond
    /\ rg_wait > 0
    /\ rg_wait < OUTAGE_RETRY_SECONDS * TicksPerSecond

-----------------------------------------------------------------------------
(* Properties of the phase-1 fetch loop *)

\* C28: when robust_get raises NetworkOutageExceededError in the phase-1
\* loop, the loop stops, the track infos collected so far are written to
\* the error CSV and the script exits with status 1; the batch is not
\* counted as an ordinary failed batch
C28_OutageStopsPhase1 ==
    p1_outcome = "NetworkOutageExceededError" =>
        /\ pc = "exit"
        /\ exit_status = 1
        /\ error_csv = recco_track_infos

\* What happens instead: the outage is counted as a failed batch and the
\* loop runs on to its end
C28_OutageSkipsBatch ==
    [][(pc = "phase1" /\ batch_idx < total_batches
          /\ p1_outcome' = "NetworkOutageExceededError") =>
          /\ batch_idx' = batch_idx + 1
          /\ recco_track_infos' = recco_track_infos
          /\ pc' = "phase1" \/ error_csv' # <<>>]_vars

\* The loop ended normally although its last request met the outage limit
C28_LoopOutlivesOutage ==
    /\ pc = "phase1_done"
    /\ p1_outcome = "NetworkOutageExceededError"
    /\ exit_status = 0
    /\ batch_idx = total_batches

-----------------------------------------------------------------------------
(* Properties of the phase-2 fetch loop *)

TimesAppended(t) == Cardinality({ i \in DOMAIN features : features[i] = t })

\* C27: in the phase-2 loop every track contributes at most one record to
\* features, also when its batch is retried after a 429, and features
\* never has more records than there are tracks; track_idx advances only
\* after a batch in which no 429 was met
C27_OneRecordPerTrack ==
    /\ [](\A t \in 1..total : TimesAppended(t) <= 1)
    /\ [](Len(features) <= total)
    /\ [][track_idx' # track_idx =>
            \A k \in DOMAIN batch_results' : batch_results'[k] # "429"]_vars

\* The part that holds: track_idx moves on by a whole batch, and only when
\* no result of the batch was a 429, a None or an exception
C27_AdvancesAfterCleanBatch ==
    [][track_idx' # track_idx =>
          /\ track_idx' = track_idx + MAX_WORKERS \/ track_idx' = total
          /\ \A k \in DOMAIN batch_results' :
                batch_results'[k] \in {"features", "404"}]_vars

\* One track appended twice, and more records than tracks
C27_AppendedTwice ==
    /\ pc = "phase2_done"
    /\ total = 2
    /\ TimesAppended(1) = 2
    /\ Len(features) = 3

-----------------------------------------------------------------------------
(* Properties of generate_playlists *)

\* The limit in force: the one handed in, or max(1, int(0.15 * num_songs))
LimitInForce ==
    IF max_per_artist # NaN THEN ValueOf(max_per_artist)
    ELSE IF (15 * num_songs) \div 100 >= 1 THEN (15 * num_songs) \div 100 ELSE 1

\* positions is an increasing choice of positions of long that gives short
IsSubsequenceAt(short, long, positions) ==
    /\ DOMAIN positions = DOMAIN short
    /\ \A i \in DOMAIN short : positions[i] \in DOMAIN long /\ long[positions[i]] = short[i]
    /\ \A i, j \in DOMAIN short : i < j => positions[i] < positions[j]

\* enforce_artist_diversity keeps the order of its input and drops a track
\* only if the limit of its artist was already reached by tracks kept
\* before it
DiversityKeepsOrderAndDropsOnlyAtLimit ==
    \E positions \in [DOMAIN diverse_tracks -> DOMAIN unique_tracks] :
        /\ IsSubsequenceAt(diverse_tracks, unique_tracks, positions)
        /\ \A k \in DOMAIN unique_tracks :
              (\A i \in DOMAIN positions : positions[i] # k) =>
                  Cardinality({ i \in DOMAIN positions :
                                  /\ positions[i] < k
                                  /\ unique_tracks[positions[i]][2] = unique_tracks[k][2] })
                      >= LimitInForce

NoRepeatedPair(tracks) ==
    \A i, j \in DOMAIN tracks : i # j => tracks[i] # tracks[j]

AtMostPerArtist(tracks, limit) ==
    \A a \in PlaylistArtists :
        Cardinality({ i \in DOMAIN tracks : tracks[i][2] = a }) <= Max(limit, 0)

\* C30: a playlist built by generate_playlists has at most num_songs
\* tracks, no repeated (track, artist) pair and at most max_per_artist
\* tracks of any artist, the limit defaulting to
\* max(1, int(0.15 * num_songs)); enforce_artist_diversity keeps the input
\* order and drops a track only if the limit of its artist was reached by
\* the tracks kept before it
C30_PlaylistWithinLimits ==
    pc = "generated" =>
        /\ Len(generated_playlists) <= num_songs
        /\ NoRepeatedPair(generated_playlists)
        /\ AtMostPerArtist(generated_playlists, LimitInForce)
        /\ DiversityKeepsOrderAndDropsOnlyAtLimit

\* The parts that hold whatever num_songs is
C30_DiverseAndUnique ==
    pc = "generated" =>
        /\ num_songs >= 0 => Len(generated_playlists) <= num_songs
        /\ NoRepeatedPair(generated_playlists)
        /\ AtMostPerArtist(generated_playlists, LimitInForce)
        /\ DiversityKeepsOrderAndDropsOnlyAtLimit

\* A playlist of two tracks for num_songs = -1
C30_NegativeNumSongs ==
    /\ pc = "generated"
    /\ num_songs = -1
    /\ Len(generated_playlists) = 2
    /\ Len(diverse_tracks) = 3

====
